---------------------------- MODULE Spec2Model ----------------------------
(***************************************************************************)
(* Model of the GeoCroissant metadata crosswalk scripts (HarshShinde0/dcai).*)
(*                                                                         *)
(* Conventions of the model                                                *)
(*  - A Python dict with optional keys is a record whose optional fields   *)
(*    hold <<>> (key absent, or None) or <<v>> (key present with value v). *)
(*  - A string is a sequence of one-character strings, so formatting       *)
(*    (f-strings), str.split(), str.replace(), re.sub() and float() are    *)
(*    modelled character by character.                                     *)
(*  - A number is a fixed-point value counted in tenths, tagged with its   *)
(*    Python type (int / float) because str() prints the two differently.  *)
(*  - A temporal string is a sequence of lexical tokens: timestamp tokens  *)
(*    and the separator "/".  A timestamp token keeps the instant (in      *)
(*    model hours), whether a time part is written, and the zone suffix.   *)
(*  - datetime.fromisoformat is modelled as in Python 3.11 and later (a    *)
(*    trailing "Z" is accepted and gives an aware datetime).               *)
(***************************************************************************)
EXTENDS Integers, Sequences, FiniteSets, TLC

VARIABLES
    pc,              \* position of the run
    clock,           \* wall clock (model hours) read by datetime.now()/utcnow()
    stac_dict,       \* raw STAC document handed to stac_to_geocroissant
    croissant,       \* GeoCroissant document in flight (adapter output, exporter input)
    croissant_rerun, \* GeoCroissant document returned by a second adapter run
    warnings,        \* warnings printed by the adapter run, in order
    item,            \* result of geocroissant_to_stac
    item_rerun,      \* result of a second geocroissant_to_stac call on the same input
    walked,          \* what os.walk finds under the data directory (absent: no such path)
    tdml_obj,        \* result of convert_geocroissant_to_tdml_objectmodel
    geocroissant,    \* document written by tdml_to_geocroissant
    items_list,      \* STAC items handed to convert_items_to_geocroissant
    timeseries,      \* document returned by convert_items_to_geocroissant
    variables,       \* NetCDF variables handed to _generate_field_definitions
    fields,          \* fields returned by _generate_field_definitions
    tool,            \* which exporter script the command-line run executes
    source_file,     \* content of the input file on disk (absent: unreadable)
    phases,          \* what the run has done so far, in order
    outputs,         \* output files on disk, in the order they were written
    graph,           \* RDF graph assembled by geocroissant_to_geodcat_jsonld
    call_args,       \* arguments of a pending call of one helper function
    call_result      \* what that call returned

stacRun == <<stac_dict, croissant_rerun, warnings, item_rerun>>
tdmlRun == <<walked, tdml_obj, geocroissant>>
timeseriesRun == <<items_list, timeseries>>
sdoRun == <<variables, fields>>
scriptRun == <<tool, source_file, phases, outputs, graph>>
callRun == <<call_args, call_result>>

vars == <<pc, clock, croissant, item, stacRun, tdmlRun, timeseriesRun, sdoRun, scriptRun, callRun>>

\* no helper function is being called on its own
NoCall == call_args = <<>> /\ call_result = <<>>

\* no exporter script is being run from the command line
NoScriptRun ==
    /\ tool = <<>> /\ source_file = <<>> /\ phases = <<>> /\ outputs = <<>> /\ graph = <<>>
    /\ NoCall

-----------------------------------------------------------------------------
(* Bounds of the model *)

\* longest asset list of a STAC document
MaxAssets == 2
\* longest band list of one asset
MaxBands == 2
\* model calendar: hours in a day, days in a year
HoursPerDay == 2
DaysPerYear == 2

HoursPerYear == HoursPerDay * DaysPerYear

None == <<>>
Some(v) == <<v>>

Range(s) == {s[i] : i \in DOMAIN s}

RECURSIVE SeqsUpTo(_, _)
\* all sequences over S of length at most n
SeqsUpTo(S, n) ==
    IF n = 0 THEN {<<>>}
    ELSE LET shorter == SeqsUpTo(S, n - 1)
         IN  shorter \cup {Append(s, x) : s \in {t \in shorter : Len(t) = n - 1}, x \in S}

-----------------------------------------------------------------------------
(* Python numbers, str() and float() *)

PyInt(n) == [ty |-> "int", tenths |-> 10 * n]
PyFloat(t) == [ty |-> "float", tenths |-> t]
\* Python == on numbers compares values, not types
NumEq(a, b) == a.tenths = b.tenths
SeqNumEq(a, b) == Len(a) = Len(b) /\ \A i \in DOMAIN a : NumEq(a[i], b[i])

DigitChars == <<"0", "1", "2", "3", "4", "5", "6", "7", "8", "9">>
IsDigit(c) == \E d \in DOMAIN DigitChars : DigitChars[d] = c
DigitVal(c) == (CHOOSE d \in DOMAIN DigitChars : DigitChars[d] = c) - 1

RECURSIVE Digits(_)
Digits(n) == IF n < 10 THEN <<DigitChars[n + 1]>>
             ELSE Digits(n \div 10) \o <<DigitChars[(n % 10) + 1]>>

RECURSIVE NatOf(_)
NatOf(ds) == IF ds = <<>> THEN 0
             ELSE 10 * NatOf(SubSeq(ds, 1, Len(ds) - 1)) + DigitVal(ds[Len(ds)])

Abs(n) == IF n < 0 THEN -n ELSE n

\* str(x) as an f-string prints it: 10 -> "10", 10.0 -> "10.0", -0.5 -> "-0.5"
PyStr(x) ==
    LET a == Abs(x.tenths)
    IN  (IF x.tenths < 0 THEN <<"-">> ELSE <<>>)
        \o Digits(a \div 10)
        \o (IF x.ty = "float" THEN <<".">> \o Digits(a % 10) ELSE <<>>)

ValueError == [ok |-> FALSE, error |-> "ValueError"]
TypeError == [ok |-> FALSE, error |-> "TypeError"]

\* float(tok): [sign] digits ["." [digit]] or [sign] "." digit; anything else
\* raises ValueError.  The result is always a float.
ParseFloat(tok) ==
    LET signed == tok # <<>> /\ tok[1] \in {"-", "+"}
        body   == IF signed THEN Tail(tok) ELSE tok
        dots   == {i \in DOMAIN body : body[i] = "."}
        p      == IF dots = {} THEN Len(body) + 1 ELSE CHOOSE i \in dots : TRUE
        whole  == SubSeq(body, 1, p - 1)
        frac   == SubSeq(body, p + 1, Len(body))
        good   == /\ Cardinality(dots) <= 1
                  /\ \A i \in DOMAIN whole : IsDigit(whole[i])
                  /\ \A i \in DOMAIN frac : IsDigit(frac[i])
                  /\ Len(whole) + Len(frac) >= 1
                  /\ Len(frac) <= 1
        mag    == 10 * NatOf(whole) + NatOf(frac)
    IN  IF good
        THEN [ok |-> TRUE, val |-> PyFloat(IF signed /\ tok[1] = "-" THEN -mag ELSE mag)]
        ELSE ValueError

RECURSIVE SplitOn(_, _)
\* the pieces of s between occurrences of the separator character, empty pieces kept
SplitOn(s, sep) ==
    LET hits == {i \in DOMAIN s : s[i] = sep}
    IN  IF hits = {} THEN <<s>>
        ELSE LET i == CHOOSE j \in hits : \A k \in hits : j <= k
             IN  <<SubSeq(s, 1, i - 1)>> \o SplitOn(SubSeq(s, i + 1, Len(s)), sep)

\* str.split() without argument: split on runs of whitespace, no empty pieces
Split(s) == SelectSeq(SplitOn(s, " "), LAMBDA piece : piece # <<>>)

SafeChars == {"a", "b", "A", "B", "S", "1", "2", "_", "-"}
\* re.sub(r"[^a-zA-Z0-9_\-]", "-", name)
sanitize_name(name) == [i \in DOMAIN name |-> IF name[i] \in SafeChars THEN name[i] ELSE "-"]

\* name.replace(" ", "_")
ReplaceSpace(name) == [i \in DOMAIN name |-> IF name[i] = " " THEN "_" ELSE name[i]]
\* name.lower()
Lower(name) == [i \in DOMAIN name |->
                  IF name[i] = "A" THEN "a" ELSE IF name[i] = "B" THEN "b"
                  ELSE IF name[i] = "S" THEN "s" ELSE name[i]]

-----------------------------------------------------------------------------
(* Timestamps *)

\* a timestamp as written in a document
Ts(h, time, zone) == [tok |-> "ts", hours |-> h, time |-> time, zone |-> zone]
Slash == [tok |-> "/"]

\* s.split("T")[0]: the date part of a timestamp string
DatePart(ts) ==
    IF ts.time THEN Ts((ts.hours \div HoursPerDay) * HoursPerDay, FALSE, "") ELSE ts

\* datetime.utcnow().isoformat().split("T")[0]
Today(now) == Ts((now \div HoursPerDay) * HoursPerDay, FALSE, "")
\* datetime.utcnow().year
YearOf(now) == now \div HoursPerYear

-----------------------------------------------------------------------------
(* STAC -> GeoCroissant: stac_to_geocroissant *)

UnnamedItem == <<"U", "n", "n", "a", "m", "e", "d", "I", "t", "e", "m">>
UnnamedDataset == <<"U", "n", "n", "a", "m", "e", "d", "D", "a", "t", "a", "s", "e", "t">>

\* Python truthiness of an optional string or list: present and not empty
Truthy(o) == o # <<>> /\ o[1] # <<>>
\* (x or default) for an optional string x
OrElse(o, default) == IF Truthy(o) THEN o[1] ELSE default
\* d.get(key, default): the value when the key is present
GetOr(o, default) == IF o # <<>> THEN o[1] ELSE default

\* a plausible slip: the STAC order is kept, f"{bbox[0]} {bbox[1]} {bbox[2]} {bbox[3]}"
StacBoxStringUnswapped(bbox) ==
    PyStr(bbox[1]) \o <<" ">> \o PyStr(bbox[2]) \o <<" ">> \o PyStr(bbox[3]) \o <<" ">> \o PyStr(bbox[4])

\* f"{bbox[1]} {bbox[0]} {bbox[3]} {bbox[2]}" (Python indexes from 0)
StacBoxString(bbox) ==
    PyStr(bbox[2]) \o <<" ">> \o PyStr(bbox[1]) \o <<" ">> \o PyStr(bbox[4]) \o <<" ">> \o PyStr(bbox[3])

\* lines 183-200: the spatialCoverage box of the output, or absent
StacSpatialCoverage(d) ==
    LET is_item == d.type = "feature"
        bbox == IF is_item /\ d.bbox # <<>> THEN d.bbox[1]
                ELSE IF ~is_item /\ d.extent_bbox # <<>> /\ d.extent_bbox[1] # <<>>
                     THEN d.extent_bbox[1]
                     ELSE <<>>
    IN  IF bbox # <<>> /\ Len(bbox) >= 4 THEN Some(StacBoxString(bbox)) ELSE None

\* lines 205-234: temporalCoverage (or absent) and datePublished
StacTemporal(d, now) ==
    LET is_item == d.type = "feature"
        itemCov == IF d.start_datetime # <<>> /\ d.end_datetime # <<>>
                   THEN Some(<<d.start_datetime[1], Slash, d.end_datetime[1]>>)
                   ELSE IF d.datetime # <<>> THEN Some(<<d.datetime[1]>>) ELSE None
        itemPub == IF d.start_datetime # <<>> /\ d.end_datetime # <<>>
                   THEN Some(DatePart(d.start_datetime[1]))
                   ELSE IF d.datetime # <<>> THEN Some(DatePart(d.datetime[1]))
                   ELSE IF d.created_datetime # <<>> THEN Some(DatePart(d.created_datetime[1]))
                   ELSE None
        has     == d.extent_interval # <<>> /\ d.extent_interval[1] # <<>>
        start   == IF has THEN d.extent_interval[1][1] ELSE None
        end     == IF has THEN d.extent_interval[1][2] ELSE None
        collCov == IF start # <<>> /\ end # <<>> THEN Some(<<start[1], Slash, end[1]>>)
                   ELSE IF start # <<>> THEN Some(<<start[1]>>) ELSE None
        collPub == IF start # <<>> THEN Some(DatePart(start[1])) ELSE None
        cov     == IF is_item THEN itemCov ELSE collCov
        pub     == IF is_item THEN itemPub ELSE collPub
    IN  [temporalCoverage |-> cov,
         datePublished    |-> IF pub # <<>> THEN pub[1] ELSE Today(now)]

\* lines 62-68: the dataset name
StacName(d) ==
    IF d.type = "feature"
    THEN sanitize_name(OrElse(d.id, UnnamedItem))
    ELSE sanitize_name(GetOr(d.title, OrElse(d.id, UnnamedDataset)))

\* lines 126-137: citeAs
StacCiteAs(d, now) ==
    IF d.citation # <<>> THEN [kind |-> "sci:citation", text |-> d.citation[1]]
    ELSE IF d.type = "collection"
    THEN [kind |-> "misc", key |-> d.id, title |-> GetOr(d.title, StacName(d)),
          year |-> YearOf(now)]
    ELSE [kind |-> "misc", key |-> IF d.collection # <<>> THEN d.collection ELSE d.id,
          title |-> StacName(d), year |-> YearOf(now)]

\* f"Band{i+1}" for the band at Python index i, i.e. at position pos = i + 1
DefaultBandName(pos) == <<"B", "a", "n", "d">> \o Digits(pos)

\* lines 266-284: the band configuration of one asset, or absent
StacBandConfiguration(asset) ==
    IF asset.bands # <<>> /\ Len(asset.bands[1]) > 0
    THEN LET bands == asset.bands[1]
         IN  Some([totalBands    |-> Len(bands),
                   bandNamesList |-> [i \in DOMAIN bands |->
                                        IF bands[i].name # <<>> THEN bands[i].name[1]
                                        ELSE DefaultBandName(i)]])
    ELSE None

\* a plausible slip: "only add checksums if they exist", with no placeholder
StacFileObjectNoPlaceholder(asset) ==
    [type           |-> "cr:FileObject",
     id             |-> Some(asset.key),
     name           |-> Some(asset.key),
     contentUrl     |-> asset.href,
     encodingFormat |-> Some(GetOr(asset.type, "application/octet-stream")),
     sha256         |-> IF asset.multihash # <<>> THEN asset.multihash ELSE asset.file_checksum,
     md5            |-> asset.md5,
     bandConfiguration |-> StacBandConfiguration(asset)]

\* lines 241-284: the FileObject of one asset
StacFileObject(asset) ==
    LET sha   == IF asset.multihash # <<>> THEN asset.multihash
                 ELSE IF asset.file_checksum # <<>> THEN asset.file_checksum
                 ELSE None
        md5   == asset.md5
        bare  == sha = <<>> /\ md5 = <<>>
    IN  [type           |-> "cr:FileObject",
         id             |-> Some(asset.key),
         name           |-> Some(asset.key),
         contentUrl     |-> asset.href,
         encodingFormat |-> Some(GetOr(asset.type, "application/octet-stream")),
         sha256         |-> IF bare THEN Some("PLACEHOLDER-CHECKSUM-REQUIRED") ELSE sha,
         md5            |-> md5,
         bandConfiguration |-> StacBandConfiguration(asset)]

\* line 263: the warning printed for an asset without checksum
StacChecksumWarning(asset) ==
    IF asset.multihash = <<>> /\ asset.file_checksum = <<>> /\ asset.md5 = <<>>
    THEN <<[kind |-> "no-checksum", asset |-> asset.key]>>
    ELSE <<>>

RECURSIVE StacAssetLoop(_, _)
\* lines 240-294: the loop over the assets, in dict order
StacAssetLoop(assets, acc) ==
    IF assets = <<>> THEN acc
    ELSE LET asset == Head(assets)
         IN  StacAssetLoop(Tail(assets),
                           [distribution |-> Append(acc.distribution, StacFileObject(asset)),
                            warnings     |-> acc.warnings \o StacChecksumWarning(asset)])

\* lines 296-312: item_assets as fileSet templates
StacFileSets(d) ==
    IF d.item_assets # <<>>
    THEN Some([i \in DOMAIN d.item_assets[1] |->
                 [type     |-> "cr:FileSet",
                  includes |-> <<[type |-> "cr:FileObject", id |-> d.item_assets[1][i]]>>]])
    ELSE None

\* the document returned and the warnings printed
stac_to_geocroissant(d, now) ==
    LET temporal == StacTemporal(d, now)
        loop     == StacAssetLoop(d.assets, [distribution |-> <<>>, warnings |-> <<>>])
    IN  [doc |-> [id               |-> d.id,
                  name             |-> Some(StacName(d)),
                  citeAs           |-> Some(StacCiteAs(d, now)),
                  spatialCoverage  |-> StacSpatialCoverage(d),
                  temporalCoverage |-> temporal.temporalCoverage,
                  datePublished    |-> Some(temporal.datePublished),
                  distribution     |-> loop.distribution,
                  fileSet          |-> StacFileSets(d)],
         warnings |-> loop.warnings]

-----------------------------------------------------------------------------
(* GeoCroissant -> STAC: geocroissant_to_stac *)

\* d.get(key) on a document whose adapter may not emit the key at all
Opt(g, k) == IF k \in DOMAIN g THEN g[k] ELSE None

Unknown == <<"u", "n", "k", "n", "o", "w", "n">>
AssetName == <<"a", "s", "s", "e", "t">>
EmptyUrl == [scheme |-> "", path |-> <<>>]

\* lines 16-39: bbox and geometry from the box string "south west north east"
ExportBox(g) ==
    LET bbox_string == GetOr(Opt(g, "spatialCoverage"), <<>>)
        tokens == Split(bbox_string)
        coords == [i \in DOMAIN tokens |-> ParseFloat(tokens[i])]
    IN  IF bbox_string # <<>>
        THEN IF \E i \in DOMAIN coords : ~coords[i].ok THEN ValueError
             ELSE IF Len(coords) # 4 THEN ValueError
             ELSE LET south == coords[1].val
                      west  == coords[2].val
                      north == coords[3].val
                      east  == coords[4].val
                  IN  [ok |-> TRUE,
                       bbox |-> <<west, south, east, north>>,
                       ring |-> << <<west, south>>, <<west, north>>, <<east, north>>,
                                   <<east, south>>, <<west, south>> >>]
        ELSE [ok |-> TRUE,
              bbox |-> <<PyInt(-180), PyInt(-90), PyInt(180), PyInt(90)>>,
              ring |-> << <<PyInt(-180), PyInt(-90)>>, <<PyInt(-180), PyInt(90)>>,
                          <<PyInt(180), PyInt(90)>>, <<PyInt(180), PyInt(-90)>>,
                          <<PyInt(-180), PyInt(-90)>> >>]

\* datetime.fromisoformat(s) on one piece of a temporal string
FromIsoFormat(piece) ==
    IF Len(piece) = 1 /\ piece[1].tok = "ts" /\ piece[1].zone \in {"", "Z", "+00:00"}
    THEN [ok |-> TRUE, hours |-> piece[1].hours, aware |-> piece[1].zone # ""]
    ELSE ValueError

\* dt.isoformat() + "Z"
IsoFormatZ(dt) == Ts(dt.hours, TRUE, IF dt.aware THEN "+00:00Z" ELSE "Z")

\* lines 41-62: start, end and the item datetime
ExportTemporal(g, now) ==
    LET temporal_coverage == GetOr(Opt(g, "temporalCoverage"), <<>>)
        pieces == SplitOn(temporal_coverage, Slash)
    IN  IF temporal_coverage # <<>> /\ \E i \in DOMAIN temporal_coverage : temporal_coverage[i] = Slash
        THEN IF Len(pieces) # 2 THEN ValueError
             ELSE LET start_dt == FromIsoFormat(pieces[1])
                      end_dt   == FromIsoFormat(pieces[2])
                  IN  IF ~start_dt.ok \/ ~end_dt.ok THEN ValueError
                      ELSE IF start_dt.aware # end_dt.aware THEN TypeError
                      ELSE [ok |-> TRUE,
                            datetime |-> [hours |-> start_dt.hours
                                                    + (end_dt.hours - start_dt.hours) \div 2,
                                          aware |-> start_dt.aware],
                            start_datetime |-> Some(IsoFormatZ(start_dt)),
                            end_datetime   |-> Some(IsoFormatZ(end_dt))]
        ELSE [ok |-> TRUE,
              datetime |-> [hours |-> now, aware |-> FALSE],
              start_datetime |-> None,
              end_datetime   |-> None]

DirectoryFormats == {"local_directory"}
TiffFormats == {"image/tiff"}

\* item.add_asset(key, asset): a dict assignment, an existing key keeps its place
AddAsset(assets, a) ==
    IF \E i \in DOMAIN assets : assets[i].key = a.key
    THEN [i \in DOMAIN assets |-> IF assets[i].key = a.key THEN a ELSE assets[i]]
    ELSE Append(assets, a)

RECURSIVE ExportAssetLoop(_, _)
\* lines 97-139: the loop over the distribution
ExportAssetLoop(distribution, assets) ==
    IF distribution = <<>> THEN assets
    ELSE LET dist_item == Head(distribution)
             content_url == GetOr(Opt(dist_item, "contentUrl"), EmptyUrl)
             fmt == GetOr(Opt(dist_item, "encodingFormat"), "")
             skip == \/ content_url = EmptyUrl
                     \/ content_url.scheme = "file"
                     \/ fmt \in DirectoryFormats
             asset_id == Lower(ReplaceSpace(
                            GetOr(Opt(dist_item, "id"), GetOr(Opt(dist_item, "name"), AssetName))))
             asset == [key        |-> asset_id,
                       href       |-> content_url,
                       media_type |-> IF fmt \in TiffFormats THEN "GEOTIFF" ELSE fmt,
                       roles      |-> IF dist_item.type = "cr:FileSet"
                                      THEN <<"data", "collection">> ELSE <<"data">>,
                       file_pattern |-> Opt(dist_item, "includes"),
                       raster_bands |-> None]
         IN  ExportAssetLoop(Tail(distribution),
                             IF skip THEN assets ELSE AddAsset(assets, asset))

\* lines 141-161: the raster bands put on every GeoTIFF asset
ExportRasterBands(g, assets) ==
    LET spectral_bands == GetOr(Opt(g, "spectralBandMetadata"), <<>>)
        raster_bands == [i \in DOMAIN spectral_bands |->
                            [name |-> GetOr(Opt(spectral_bands[i], "name"), <<>>)]]
    IN  IF spectral_bands # <<>>
        THEN [i \in DOMAIN assets |->
                IF assets[i].media_type = "GEOTIFF"
                THEN [assets[i] EXCEPT !.raster_bands = Some(raster_bands)]
                ELSE assets[i]]
        ELSE assets

\* item.to_dict(), or the exception raised
geocroissant_to_stac(g, now) ==
    LET box == ExportBox(g)
        temporal == ExportTemporal(g, now)
    IN  IF ~box.ok THEN box
        ELSE IF ~temporal.ok THEN temporal
        ELSE [ok             |-> TRUE,
              id             |-> ReplaceSpace(GetOr(Opt(g, "name"), Unknown)),
              bbox           |-> box.bbox,
              geometry       |-> box.ring,
              datetime       |-> temporal.datetime,
              start_datetime |-> temporal.start_datetime,
              end_datetime   |-> temporal.end_datetime,
              assets         |-> ExportRasterBands(g, ExportAssetLoop(g.distribution, <<>>))]

-----------------------------------------------------------------------------
(* GeoCroissant -> OGC-TDML: convert_geocroissant_to_tdml_objectmodel *)

\* min(xs) / max(xs) of a non-empty list: the first element no other one beats
MinNum(xs) ==
    xs[CHOOSE i \in DOMAIN xs : /\ \A j \in DOMAIN xs : xs[i].tenths <= xs[j].tenths
                                /\ \A j \in 1..(i - 1) : xs[j].tenths > xs[i].tenths]
MaxNum(xs) ==
    xs[CHOOSE i \in DOMAIN xs : /\ \A j \in DOMAIN xs : xs[i].tenths >= xs[j].tenths
                                /\ \A j \in 1..(i - 1) : xs[j].tenths < xs[i].tenths]

\* a plausible slip: the box order is copied, extent = [coords[0], coords[1], coords[2], coords[3]]
TdmlExtentFromBoxUnswapped(coords) == Some(<<coords[1], coords[2], coords[3], coords[4]>>)

\* line 53: extent = [coords[1], coords[0], coords[3], coords[2]] (Python indexes from 0)
TdmlExtentFromBox(coords) == Some(<<coords[2], coords[1], coords[4], coords[3]>>)

\* lines 40-62: the extent [minLon, minLat, maxLon, maxLat], absent, or the exception
TdmlExtent(g) ==
    LET box == GetOr(Opt(g, "spatialCoverage"), <<>>)
        tokens == Split(box)
        parsed == [i \in DOMAIN tokens |-> ParseFloat(tokens[i])]
        coords == [i \in DOMAIN parsed |-> parsed[i].val]
        ring == GetOr(Opt(g, "coordinates"), <<>>)
    IN  IF box # <<>>
        THEN IF \E i \in DOMAIN parsed : ~parsed[i].ok THEN ValueError
             ELSE [ok |-> TRUE,
                   extent |-> IF Len(coords) = 4 THEN TdmlExtentFromBox(coords) ELSE None]
        ELSE IF ring # <<>>
        THEN [ok |-> TRUE,
              extent |-> Some(<<MinNum([i \in DOMAIN ring |-> ring[i][1]]),
                                MinNum([i \in DOMAIN ring |-> ring[i][2]]),
                                MaxNum([i \in DOMAIN ring |-> ring[i][1]]),
                                MaxNum([i \in DOMAIN ring |-> ring[i][2]])>>)]
        ELSE [ok |-> TRUE, extent |-> None]

\* a plausible slip: the band is described by its unit string instead of its name
TdmlBandMisdescribed(band) ==
    LET center_wl == Opt(band, "centerWavelength")
    IN  [code |-> GetOr(Opt(band, "name"), <<>>),
         description |-> IF center_wl # <<>> THEN center_wl[1].unitText
                         ELSE GetOr(Opt(band, "name"), <<>>),
         units |-> None]

\* lines 70-92: the MD_Band built from one spectral band entry
TdmlBand(band) ==
    LET band_name == GetOr(Opt(band, "name"), <<>>)
        center_wl == Opt(band, "centerWavelength")
        wl_value  == IF center_wl # <<>> THEN center_wl[1].value ELSE PyInt(0)
        wl_unit   == IF center_wl # <<>> THEN center_wl[1].unitText ELSE <<>>
        unit_str  == IF wl_value.tenths # 0 /\ wl_unit # <<>>
                     THEN PyStr(wl_value) \o wl_unit ELSE <<>>
    IN  [code |-> band_name,
         description |-> band_name,
         units |-> IF unit_str # <<>> THEN Some(unit_str) ELSE None]

\* lines 64-92: one MD_Band per spectral band, in order
TdmlBands(g) ==
    LET spectral_bands == GetOr(Opt(g, "spectralBandMetadata"), <<>>)
    IN  [i \in DOMAIN spectral_bands |-> TdmlBand(spectral_bands[i])]

\* sub in s
Contains(s, sub) ==
    \E i \in 1..(Len(s) - Len(sub) + 1) : SubSeq(s, i, i + Len(sub) - 1) = sub

\* lines 125-132: how the scan classifies one record-set field
FieldRole(field) ==
    LET field_name == Lower(GetOr(Opt(field, "name"), <<>>))
        field_id   == Lower(GetOr(Opt(field, "id"), <<>>))
    IN  IF Contains(field_name, <<"i", "m", "a", "g", "e">>)
           \/ Contains(field_id, <<"i", "m", "a", "g", "e">>) THEN "image"
        ELSE IF Contains(field_name, <<"m", "a", "s", "k">>)
                \/ Contains(field_id, <<"m", "a", "s", "k">>)
                \/ Contains(field_name, <<"l", "a", "b", "e", "l">>) THEN "mask"
        ELSE "other"

RECURSIVE LastField(_, _)
\* lines 113-132: the last record-set field recognised as image (or as mask)
LastField(record_fields, role) ==
    IF record_fields = <<>> THEN None
    ELSE IF FieldRole(record_fields[Len(record_fields)]) = role
         THEN Some(record_fields[Len(record_fields)])
    ELSE LastField(SubSeq(record_fields, 1, Len(record_fields) - 1), role)

\* lines 144-149: an entry that is neither cr:FileObject nor cr:FileSet
HasLegacyDistribution(distribution) ==
    \E i \in DOMAIN distribution :
        distribution[i].type \notin {"cr:FileObject", "cr:FileSet"}

DataId(n) == <<"d", "a", "t", "a", "_">> \o Digits(n)

\* lines 153-179: legacy distribution, entries taken two by two
TdmlLegacyData(distribution) ==
    [k \in 1..((Len(distribution) + 1) \div 2) |->
        LET img_entry == distribution[2 * k - 1]
            labels == IF 2 * k <= Len(distribution)
                      THEN <<[image_url |-> GetOr(Opt(distribution[2 * k], "contentUrl"), EmptyUrl),
                              image_format |-> GetOr(Opt(distribution[2 * k], "encodingFormat"),
                                                     "image/tiff")]>>
                      ELSE <<>>
        IN  [id |-> DataId(k - 1),
             data_url |-> GetOr(Opt(img_entry, "contentUrl"), EmptyUrl),
             labels |-> labels]]

\* re.search(pattern, filename) for the patterns the record-set fields carry
Matches(pattern, file) ==
    \/ pattern = ".*\\.tif$" /\ file.suffix \in {"_merged.tif", ".mask.tif"}
    \/ pattern = ".*_merged\\.tif$" /\ file.suffix = "_merged.tif"
    \/ pattern = ".*\\.mask\\.tif$" /\ file.suffix = ".mask.tif"

\* string order of the relative paths f"{dir}/{stem}{suffix}", dir and stem one digit
\* each; "." sorts before "_"
PathLess(a, b) ==
    \/ a.dir < b.dir
    \/ a.dir = b.dir /\ a.stem < b.stem
    \/ a.dir = b.dir /\ a.stem = b.stem /\ a.suffix = ".mask.tif" /\ b.suffix # ".mask.tif"
\* list.sort()
SortPaths(files) == SortSeq(files, PathLess)

\* re.sub(suffix + "$", "", os.path.basename(path))
BaseName(file, suffix) ==
    IF file.suffix = suffix THEN [stem |-> file.stem, rest |-> ""]
    ELSE [stem |-> file.stem, rest |-> file.suffix]

RECURSIVE BaseMap(_, _, _)
\* lines 240-250: dict base name -> path, in insertion order, a repeated key overwritten
BaseMap(files, suffix, acc) ==
    IF files = <<>> THEN acc
    ELSE LET e == [key |-> BaseName(Head(files), suffix), path |-> Head(files)]
         IN  BaseMap(Tail(files), suffix, AddAsset(acc, e))

\* os.path.join(base_path, rel_path)
JoinPath(base_path, file) == [scheme |-> base_path.scheme, path |-> base_path.path, file |-> file]

\* lines 181-287: FileSet structure, files enumerated from the file system
TdmlEnumeratedData(g, files) ==
    LET distribution == g.distribution
        objs == SelectSeq(distribution, LAMBDA d : d.type = "cr:FileObject")
        base_path == IF objs # <<>> THEN GetOr(Opt(objs[1], "contentUrl"), EmptyUrl) ELSE EmptyUrl
        image_field == LastField(GetOr(Opt(g, "field"), <<>>), "image")
        mask_field  == LastField(GetOr(Opt(g, "field"), <<>>), "mask")
        image_pattern == IF image_field # <<>>
                         THEN Some(GetOr(Opt(image_field[1], "regex"), ".*_merged\\.tif$"))
                         ELSE None
        mask_pattern  == IF mask_field # <<>>
                         THEN Some(GetOr(Opt(mask_field[1], "regex"), ".*\\.mask\\.tif$"))
                         ELSE None
    IN  IF files # <<>>
        THEN LET image_files == SortPaths(SelectSeq(files[1],
                                   LAMBDA f : image_pattern # <<>> /\ Matches(image_pattern[1], f)))
                 mask_files  == SortPaths(SelectSeq(files[1],
                                   LAMBDA f : mask_pattern # <<>> /\ Matches(mask_pattern[1], f)))
                 image_base_map == BaseMap(image_files, "_merged.tif", <<>>)
                 mask_base_map  == BaseMap(mask_files, ".mask.tif", <<>>)
                 paired == [idx \in DOMAIN image_base_map |->
                              LET hit == SelectSeq(mask_base_map,
                                            LAMBDA m : m.key = image_base_map[idx].key)
                              IN  IF hit # <<>>
                                  THEN Some([id |-> DataId(idx - 1),
                                             data_url |-> JoinPath(base_path, image_base_map[idx].path),
                                             labels |-> <<[image_url |-> JoinPath(base_path, hit[1].path),
                                                           image_format |-> "image/tiff"]>>])
                                  ELSE None]
                 kept == SelectSeq(paired, LAMBDA o : o # <<>>)
             IN  [i \in DOMAIN kept |-> kept[i][1]]
        ELSE <<[id |-> DataId(0),
                data_url |-> IF base_path # EmptyUrl THEN base_path
                             ELSE [scheme |-> "", path |-> <<".", "/", "d", "a", "t", "a">>],
                labels |-> <<[image_url |-> [scheme |-> "",
                                            path |-> <<".", "/", "l", "a", "b", "e", "l", "s">>],
                              image_format |-> "image/tiff"]>>]>>

\* the EOTrainingDataset written, or the exception raised; `files` is what the
\* file system holds under the base path (absent: the path does not exist)
convert_geocroissant_to_tdml_objectmodel(g, files) ==
    LET extent == TdmlExtent(g)
        distribution == g.distribution
        data == IF HasLegacyDistribution(distribution)
                THEN TdmlLegacyData(distribution)
                ELSE TdmlEnumeratedData(g, files)
        \* line 34: dateCreated or datePublished or the built-in date
        created_time == IF Truthy(Opt(g, "dateCreated")) THEN g.dateCreated[1]
                        ELSE GetOr(Opt(g, "datePublished"), [tok |-> "2025-07-17"])
    IN  IF ~extent.ok THEN extent
        ELSE IF data = <<>> THEN ValueError
        ELSE [ok |-> TRUE,
              id |-> GetOr(Opt(g, "identifier"), <<>>),
              name |-> GetOr(Opt(g, "name"), <<>>),
              created_time |-> created_time,
              bands |-> TdmlBands(g),
              data |-> data,
              extent |-> extent.extent,
              amount_of_training_data |-> Len(data)]

-----------------------------------------------------------------------------
(* OGC-TDML -> GeoCroissant: tdml_to_geocroissant *)

Letters == {"n", "m", "u", "a", "b", "A", "B", "S"}

\* length of the longest prefix of s whose characters all satisfy Ok
PrefixLen(s, Ok(_)) ==
    LET bad == {i \in DOMAIN s : ~Ok(s[i])}
    IN  IF bad = {} THEN Len(s) ELSE (CHOOSE i \in bad : \A j \in bad : i <= j) - 1

\* lines 85-91: re.match(r'(\d+\.?\d*)([a-zA-Z]+)', units_str); the greedy groups never
\* need to give characters back, the next character after each is of another class
MatchUnits(units_str) ==
    LET d1 == PrefixLen(units_str, IsDigit)
        after1 == SubSeq(units_str, d1 + 1, Len(units_str))
        dot == IF after1 # <<>> /\ after1[1] = "." THEN 1 ELSE 0
        after2 == SubSeq(after1, dot + 1, Len(after1))
        d2 == PrefixLen(after2, IsDigit)
        after3 == SubSeq(after2, d2 + 1, Len(after2))
        l == PrefixLen(after3, LAMBDA c : c \in Letters)
        number == ParseFloat(SubSeq(units_str, 1, d1 + dot + d2))
    IN  IF d1 = 0 \/ l = 0 THEN None
        ELSE Some([value |-> number.val, unitText |-> SubSeq(after3, 1, l)])

\* lines 77-92: the spectral band entry made from one MD_Band
ImportBand(band) ==
    LET match == IF band.units # <<>> /\ band.units[1] # <<>>
                 THEN MatchUnits(band.units[1]) ELSE None
    IN  [name |-> Some(band.description), centerWavelength |-> match]

\* re.sub(r'[^A-Za-z0-9_-]', '_', tdml.name)
SanitizeTdmlName(name) == [i \in DOMAIN name |-> IF name[i] \in SafeChars THEN name[i] ELSE "_"]

\* lines 94-104: the box string "minLat minLon maxLat maxLon" from the extent
ImportSpatialCoverage(tdml) ==
    IF tdml.extent # <<>> /\ tdml.extent[1] # <<>>
    THEN LET extent == tdml.extent[1]
         IN  Some(PyStr(extent[2]) \o <<" ">> \o PyStr(extent[1]) \o <<" ">>
                  \o PyStr(extent[4]) \o <<" ">> \o PyStr(extent[3]))
    ELSE None

\* lines 106-110: the first data URL does not start with http:// or https://
HasLocalFiles(tdml) ==
    Len(tdml.data) > 0 /\ tdml.data[1].data_url.scheme \notin {"http", "https"}

\* os.path.dirname(os.path.dirname(first_path))
BaseDir(first_path) ==
    IF "file" \in DOMAIN first_path
    THEN [scheme |-> first_path.scheme, path |-> first_path.path]
    ELSE [scheme |-> first_path.scheme, path |-> first_path.path, up |-> 2]

ImageId(idx) == <<"i", "m", "a", "g", "e", "_">> \o Digits(idx)
MaskId(idx) == <<"m", "a", "s", "k", "_">> \o Digits(idx)
DataRepo == <<"d", "a", "t", "a", "_", "r", "e", "p", "o">>
TiffFiles == <<"t", "i", "f", "f", "-", "f", "i", "l", "e", "s">>

\* lines 144-161: the one or two FileObjects of one training datum
ImportRemoteEntry(d, idx) ==
    <<[type |-> "cr:FileObject", id |-> Some(ImageId(idx)),
       name |-> Some([basename |-> d.data_url]), contentUrl |-> Some(d.data_url),
       encodingFormat |-> Some("image/tiff")]>>
    \o (IF d.labels # <<>>
        THEN <<[type |-> "cr:FileObject", id |-> Some(MaskId(idx)),
                name |-> Some([basename |-> d.labels[1].image_url]),
                contentUrl |-> Some(d.labels[1].image_url),
                encodingFormat |-> Some(d.labels[1].image_format)]>>
        ELSE <<>>)

RECURSIVE ImportRemoteLoop(_, _)
ImportRemoteLoop(data, idx) ==
    IF idx >= Len(data) THEN <<>>
    ELSE ImportRemoteEntry(data[idx + 1], idx) \o ImportRemoteLoop(data, idx + 1)

\* a plausible slip: the local directory and its file set are not emitted
ImportDistributionRemoteOnly(tdml) == ImportRemoteLoop(tdml.data, 0)

\* lines 112-161
ImportDistribution(tdml) ==
    IF HasLocalFiles(tdml)
    THEN <<[type |-> "cr:FileObject", id |-> Some(DataRepo), name |-> Some(DataRepo),
            contentUrl |-> Some(BaseDir(tdml.data[1].data_url)),
            encodingFormat |-> Some("local_directory"),
            sha256 |-> Some("placeholder_hash_for_directory")],
           [type |-> "cr:FileSet", id |-> Some(TiffFiles), name |-> Some(TiffFiles),
            containedIn |-> Some(DataRepo), encodingFormat |-> Some("image/tiff"),
            includes |-> Some("**/*.tif")]>>
    ELSE ImportRemoteLoop(tdml.data, 0)

\* lines 166-220: the image field and the mask field of the record set
ImportFields(tdml, spectral_bands) ==
    LET sanitized_name == SanitizeTdmlName(tdml.name)
        band_names == [i \in DOMAIN spectral_bands |-> spectral_bands[i].name[1]]
        local == HasLocalFiles(tdml)
        image_name == sanitized_name \o <<"/", "i", "m", "a", "g", "e">>
        mask_name  == sanitized_name \o <<"/", "m", "a", "s", "k">>
    IN  <<[id |-> Some(image_name), name |-> Some(image_name),
           fileSet |-> IF local THEN Some(TiffFiles) ELSE None,
           regex |-> IF local THEN Some(".*_merged\\.tif$") ELSE None,
           bandConfiguration |-> IF band_names # <<>>
                                 THEN Some([totalBands |-> Len(band_names),
                                            bandNameList |-> band_names])
                                 ELSE None],
          [id |-> Some(mask_name), name |-> Some(mask_name),
           fileSet |-> IF local THEN Some(TiffFiles) ELSE None,
           regex |-> IF local THEN Some(".*\\.mask\\.tif$") ELSE None,
           bandConfiguration |-> Some([totalBands |-> 1,
                                       bandNameList |-> <<<<"m", "a", "s", "k">>>>])]>>

\* the GeoCroissant document written from the training dataset
tdml_to_geocroissant(tdml) ==
    LET spectral_bands == [i \in DOMAIN tdml.bands |-> ImportBand(tdml.bands[i])]
    IN  [name |-> Some(tdml.name),
         identifier |-> Some(tdml.id),
         datePublished |-> Some(tdml.created_time),
         spatialCoverage |-> ImportSpatialCoverage(tdml),
         spectralBandMetadata |-> IF spectral_bands # <<>> THEN Some(spectral_bands) ELSE None,
         distribution |-> ImportDistribution(tdml),
         field |-> Some(ImportFields(tdml, spectral_bands))]

-----------------------------------------------------------------------------
(* The STAC documents a run is given *)

\* coordinates: -10, 0, -0.5 and 12.5
Coord == {PyInt(-10), PyInt(0), PyFloat(-5), PyFloat(125)}

S2 == <<"S", "2">>
B1 == <<"B", "1">>

\* RFC 3339 timestamps, as STAC requires them
StacTimes == {Ts(h, TRUE, "Z") : h \in {0, 1, HoursPerDay + 1}}
OptOf(S) == {None} \cup {Some(x) : x \in S}

BaseDoc ==
    [type |-> "feature", id |-> Some(S2), title |-> None, collection |-> None,
     citation |-> None, bbox |-> None, extent_bbox |-> <<>>, extent_interval |-> <<>>,
     start_datetime |-> None, end_datetime |-> None, datetime |-> Some(Ts(1, TRUE, "Z")),
     created_datetime |-> None, assets |-> <<>>, item_assets |-> None]

\* items with a 4-element bbox (and a few with a shorter or a 3D one)
BboxDocs ==
    {[BaseDoc EXCEPT !.bbox = Some(<<w, s, e, n>>),
                     !.start_datetime = t[1], !.end_datetime = t[2]] :
        w \in Coord, s \in Coord, e \in Coord, n \in Coord,
        t \in {<<None, None>>, <<Some(Ts(0, TRUE, "Z")), Some(Ts(1, TRUE, "Z"))>>}}
    \cup {[BaseDoc EXCEPT !.bbox = Some(b)] :
            b \in {<<>>, <<PyInt(0), PyInt(10)>>,
                   <<PyInt(0), PyInt(10), PyInt(5), PyInt(20), PyInt(30), PyInt(7)>>}}

\* items and collections with every combination of temporal fields
TemporalDocs ==
    {[BaseDoc EXCEPT !.start_datetime = a, !.end_datetime = b, !.datetime = c,
                     !.created_datetime = e] :
        a \in OptOf(StacTimes), b \in OptOf(StacTimes),
        c \in OptOf({Ts(1, TRUE, "Z")}), e \in OptOf({Ts(HoursPerDay, TRUE, "Z")})}
    \cup {[BaseDoc EXCEPT !.type = "collection", !.datetime = None, !.extent_interval = iv,
                          !.extent_bbox = bb] :
            iv \in {<<>>} \cup {<< <<a, b>> >> : a \in OptOf(StacTimes), b \in OptOf(StacTimes)},
            bb \in {<<>>, << <<PyInt(0), PyInt(10), PyInt(20), PyInt(30)>> >>}}

Names == {<<>>, S2, <<"a", " ", "b">>}

\* items and collections with every combination of identity fields
IdentityDocs ==
    {[BaseDoc EXCEPT !.type = ty, !.id = i, !.title = t, !.collection = c, !.citation = k] :
        ty \in {"feature", "collection", "catalog"},
        i \in OptOf(Names), t \in OptOf({<<>>, <<"A", "/", "B">>}),
        c \in OptOf({<<"a">>}), k \in OptOf({<<"b">>})}

BandLists == OptOf(SeqsUpTo({[name |-> nm] : nm \in OptOf({B1})}, MaxBands))

Https(path) == [scheme |-> "https", path |-> path]

\* an asset under the given key: the checksum fields in every combination, or a band list
AssetVariants(key) ==
    {[key |-> key, href |-> Some(Https(key)), type |-> None, multihash |-> m,
      file_checksum |-> f, md5 |-> x, bands |-> None] :
        m \in OptOf({"hash-m"}), f \in OptOf({"hash-f"}), x \in OptOf({"hash-5"})}
    \cup {[key |-> key, href |-> h, type |-> Some("image/tiff"), multihash |-> None,
           file_checksum |-> None, md5 |-> None, bands |-> b] :
            b \in BandLists, h \in {Some(Https(key))}}

AssetKeys == <<<<"a">>, <<"A">>, <<"a", " ">>, <<"b">>>>

RECURSIVE AssetLists(_)
\* asset dicts of exactly n entries; the i-th key is AssetKeys[i], so keys are distinct
AssetLists(n) ==
    IF n = 0 THEN {<<>>}
    ELSE {Append(l, a) : l \in AssetLists(n - 1), a \in AssetVariants(AssetKeys[n])}

AssetDocs ==
    {[BaseDoc EXCEPT !.assets = l, !.item_assets = ia] :
        l \in UNION {AssetLists(n) : n \in 0..MaxAssets},
        ia \in {None}}
    \cup {[BaseDoc EXCEPT !.item_assets = Some(<<<<"a">>>>)]}

StacDocs == BboxDocs \cup TemporalDocs \cup IdentityDocs \cup AssetDocs

-----------------------------------------------------------------------------
(* The STAC crosswalk run: STAC -> GeoCroissant (twice) -> STAC (twice) *)

\* the run starts on the last day of a model year
ClockStarts == {HoursPerYear - 2, HoursPerYear - 1}
ClockEnd == HoursPerYear

Init ==
    /\ NoScriptRun
    /\ pc = "start"
    /\ clock \in ClockStarts
    /\ stac_dict \in StacDocs
    /\ croissant = None
    /\ croissant_rerun = None
    /\ warnings = <<>>
    /\ item = None
    /\ item_rerun = None
    /\ walked = None /\ tdml_obj = None /\ geocroissant = None
    /\ items_list = None /\ timeseries = None
    /\ variables = None /\ fields = None

\* the first run of the adapter
StacToGeocroissant ==
    /\ pc = "start"
    /\ LET r == stac_to_geocroissant(stac_dict, clock)
       IN  /\ croissant' = Some(r.doc)
           /\ warnings' = r.warnings
    /\ pc' = "converted"
    /\ UNCHANGED <<callRun, scriptRun, clock, stac_dict, croissant_rerun, item, item_rerun,
                 tdmlRun, timeseriesRun, sdoRun>>

\* wall-clock time passes between two runs
Tick ==
    /\ pc \in {"converted", "exported"}
    /\ clock < ClockEnd
    /\ clock' = clock + 1
    /\ UNCHANGED <<callRun, scriptRun, pc, stac_dict, croissant, croissant_rerun, warnings, item, item_rerun,
                 tdmlRun, timeseriesRun, sdoRun>>

\* the adapter runs again on the same raw document
StacToGeocroissantAgain ==
    /\ pc = "converted"
    /\ croissant_rerun' = Some(stac_to_geocroissant(stac_dict, clock).doc)
    /\ pc' = "reconverted"
    /\ UNCHANGED <<callRun, scriptRun, clock, stac_dict, croissant, warnings, item, item_rerun,
                 tdmlRun, timeseriesRun, sdoRun>>

\* the exporter turns the first run's document back into a STAC item
GeocroissantToStac ==
    /\ pc = "reconverted"
    /\ item' = Some(geocroissant_to_stac(croissant[1], clock))
    /\ pc' = "exported"
    /\ UNCHANGED <<callRun, scriptRun, clock, stac_dict, croissant, croissant_rerun, warnings, item_rerun,
                 tdmlRun, timeseriesRun, sdoRun>>

\* the exporter is called again on the same document
GeocroissantToStacAgain ==
    /\ pc = "exported"
    /\ item_rerun' = Some(geocroissant_to_stac(croissant[1], clock))
    /\ pc' = "done"
    /\ UNCHANGED <<callRun, scriptRun, clock, stac_dict, croissant, croissant_rerun, warnings, item,
                 tdmlRun, timeseriesRun, sdoRun>>

Next ==
    \/ StacToGeocroissant
    \/ Tick
    \/ StacToGeocroissantAgain
    \/ GeocroissantToStac
    \/ GeocroissantToStacAgain

Spec == Init /\ [][Next]_vars

-----------------------------------------------------------------------------
(* Properties of the STAC crosswalk run *)

Converted == pc \in {"converted", "reconverted", "exported", "done"}
Exported == pc \in {"exported", "done"}
IsItemWithBox4 ==
    stac_dict.type = "feature" /\ stac_dict.bbox # <<>> /\ Len(stac_dict.bbox[1]) = 4

InvertedItemRange ==
    /\ stac_dict.type = "feature"
    /\ stac_dict.start_datetime # <<>>
    /\ stac_dict.end_datetime # <<>>
    /\ stac_dict.start_datetime[1].hours > stac_dict.end_datetime[1].hours

\* C4: for a temporal input whose start is after its end the converter returns
\* an absent (or explicitly invalid) temporal result together with a warning,
\* and never a swapped interval.  Stated for stac_to_geocroissant on an item's
\* start_datetime/end_datetime pair.
C4_InvertedRangeRejected ==
    (Converted /\ InvertedItemRange)
        => /\ croissant[1].temporalCoverage = None
           /\ \E i \in DOMAIN warnings : warnings[i].kind = "invalid-temporal-range"

\* C5: two runs of stac_to_geocroissant on the same raw document return the
\* same document, whatever the wall-clock time of each run.
C5_RerunIdentical ==
    pc \in {"reconverted", "exported", "done"} => croissant_rerun = croissant

HasNoChecksum(asset) ==
    asset.multihash = <<>> /\ asset.file_checksum = <<>> /\ asset.md5 = <<>>
WarningsFor(key) == {i \in DOMAIN warnings : warnings[i].asset = key}

\* C7: every asset without checksum:multihash, file:checksum and checksum:md5
\* yields a FileObject whose sha256 is the sentinel, plus exactly one warning
\* for that asset; an asset with a checksum yields neither; and no FileObject
\* of the distribution lacks both sha256 and md5.
C7_ChecksumSentinel ==
    Converted =>
        LET dist == croissant[1].distribution
        IN  /\ Len(dist) = Len(stac_dict.assets)
            /\ \A i \in DOMAIN dist :
                 LET asset == stac_dict.assets[i]
                 IN  /\ dist[i].sha256 # <<>> \/ dist[i].md5 # <<>>
                     /\ HasNoChecksum(asset) =>
                          /\ dist[i].sha256 = Some("PLACEHOLDER-CHECKSUM-REQUIRED")
                          /\ Cardinality(WarningsFor(asset.key)) = 1
                     /\ ~HasNoChecksum(asset) =>
                          /\ dist[i].sha256 # Some("PLACEHOLDER-CHECKSUM-REQUIRED")
                          /\ WarningsFor(asset.key) = {}

\* C7 witness: two assets, the first with an md5 only, the second with no
\* checksum at all: one sentinel, one warning.
C7_Witness ==
    /\ Converted
    /\ Len(stac_dict.assets) = 2
    /\ stac_dict.assets[1].md5 # <<>> /\ stac_dict.assets[1].multihash = <<>>
    /\ HasNoChecksum(stac_dict.assets[2])
    /\ croissant[1].distribution[1].sha256 = None
    /\ croissant[1].distribution[2].sha256 = Some("PLACEHOLDER-CHECKSUM-REQUIRED")
    /\ Len(warnings) = 1
    /\ warnings[1].asset = stac_dict.assets[2].key

Distinct(names) == \A i, j \in DOMAIN names : i # j => names[i] # names[j]

\* C8: band names within one emitted record are unique (a repeated source name
\* gets the suffix _2, _3, ...), and no band is dropped.
C8_BandNamesUnique ==
    Converted =>
        \A i \in DOMAIN croissant[1].distribution :
            LET cfg == croissant[1].distribution[i].bandConfiguration
            IN  cfg # <<>> =>
                  /\ Len(cfg[1].bandNamesList) = Len(stac_dict.assets[i].bands[1])
                  /\ Distinct(cfg[1].bandNamesList)

\* C10: geocroissant_to_stac is a deterministic function of its input document:
\* two calls on the same document return the same item (datetime included).
C10_ExportDeterministic ==
    pc = "done" => item_rerun = item


-----------------------------------------------------------------------------
(* The GeoCroissant documents the exporters are given *)

\* longest list os.walk returns
MaxFiles == 3
\* longest legacy distribution
MaxLegacy == 3

\* numbers written in box strings: 10, 20, 30, 40 and -0.5
BoxNumbers == {PyInt(10), PyInt(20), PyInt(30), PyInt(40), PyFloat(-5)}

\* f"{s} {w} {n} {e}"
BoxText(s, w, n, e) ==
    PyStr(s) \o <<" ">> \o PyStr(w) \o <<" ">> \o PyStr(n) \o <<" ">> \o PyStr(e)

\* box strings that are not four numbers separated by blanks
MalformedBoxes ==
    {<<>>, <<" ">>,
     <<"1", "0", " ", "2", "0", " ", "3", "0">>,
     <<"1", "0", " ", "2", "0", " ", "3", "0", " ", "4", "0", " ", "5", "0">>,
     <<"1", "0", ",", "2", "0", ",", "3", "0", ",", "4", "0">>,
     <<"a", " ", "2", "0", " ", "3", "0", " ", "4", "0">>}

LocalDir == [scheme |-> "", path |-> <<"d">>]

\* the FileObject / FileSet pair of a dataset kept in a local directory
LocalDistribution ==
    <<[type |-> "cr:FileObject", id |-> Some(DataRepo), name |-> Some(DataRepo),
       contentUrl |-> Some(LocalDir), encodingFormat |-> Some("local_directory"),
       sha256 |-> Some("hash-d")],
      [type |-> "cr:FileSet", id |-> Some(TiffFiles), name |-> Some(TiffFiles),
       containedIn |-> Some(DataRepo), encodingFormat |-> Some("image/tiff"),
       includes |-> Some("**/*.tif")]>>

ImageField(regex) == [id |-> Some(<<"S", "2", "/", "i", "m", "a", "g", "e">>),
                      name |-> Some(<<"S", "2", "/", "i", "m", "a", "g", "e">>), regex |-> regex]
MaskField(regex) == [id |-> Some(<<"S", "2", "/", "m", "a", "s", "k">>),
                     name |-> Some(<<"S", "2", "/", "m", "a", "s", "k">>), regex |-> regex]
LabelField == [id |-> None, name |-> Some(<<"l", "a", "b", "e", "l">>), regex |-> None]
OtherField == [id |-> Some(<<"a">>), name |-> None, regex |-> None]

BaseCroissant ==
    [name |-> Some(S2), identifier |-> Some(<<"a">>), spatialCoverage |-> None,
     coordinates |-> None, temporalCoverage |-> None,
     datePublished |-> Some(Ts(0, FALSE, "")), spectralBandMetadata |-> None,
     field |-> Some(<<ImageField(None), MaskField(None)>>),
     distribution |-> LocalDistribution]

\* documents with a box string, well formed or not, or with a polygon
BoxCroissants ==
    {[BaseCroissant EXCEPT !.spatialCoverage = Some(BoxText(s, w, n, e))] :
        s \in BoxNumbers, w \in BoxNumbers, n \in BoxNumbers, e \in BoxNumbers}
    \cup {[BaseCroissant EXCEPT !.spatialCoverage = Some(b)] :
            b \in MalformedBoxes \cup {<<" ", "1", "0", " ", " ", "2", "0", " ", "3", "0", " ", "4", "0">>}}
    \cup {[BaseCroissant EXCEPT !.coordinates = Some(ring)] :
            ring \in {<< <<PyInt(20), PyInt(10)>>, <<PyFloat(-5), PyInt(30)>>,
                         <<PyInt(40), PyInt(10)>>, <<PyInt(20), PyInt(10)>> >>,
                      << <<PyInt(10), PyInt(10)>> >>}}

Wavelengths ==
    {[value |-> PyInt(665), unitText |-> <<"n", "m">>],
     [value |-> PyFloat(16), unitText |-> <<"u", "m">>],
     [value |-> PyInt(0), unitText |-> <<"n", "m">>]}

SpectralBands ==
    {[name |-> nm, centerWavelength |-> wl] :
        nm \in OptOf({B1, <<"a", " ", "b">>}), wl \in OptOf(Wavelengths)}

\* documents with every list of spectral bands up to MaxBands
BandCroissants ==
    {[BaseCroissant EXCEPT !.spectralBandMetadata = b] :
        b \in OptOf(SeqsUpTo(SpectralBands, MaxBands))}

\* entries of a distribution that lists download URLs directly
LegacyEntries ==
    {[type |-> "sc:DataDownload", contentUrl |-> u, encodingFormat |-> f] :
        u \in OptOf({Https(<<"a">>), LocalDir}), f \in OptOf({"image/png"})}

Regexes == {".*\\.tif$", ".*_merged\\.tif$", ".*\\.mask\\.tif$"}

\* record-set field lists: none, the usual pair, a pair with other patterns, a lone field
FieldLists ==
    {None, Some(<<>>), Some(<<OtherField, LabelField>>), Some(<<ImageField(None)>>)}
    \cup {Some(<<ImageField(Some(r)), MaskField(Some(q))>>) : r \in Regexes, q \in Regexes}

\* documents with every kind of distribution
DistributionCroissants ==
    {[BaseCroissant EXCEPT !.distribution = d, !.spectralBandMetadata = Some(<<>>)] :
        d \in SeqsUpTo(LegacyEntries, MaxLegacy)}
    \cup {[BaseCroissant EXCEPT !.distribution =
              <<[type |-> "cr:FileObject", id |-> Some(<<"a">>), name |-> Some(<<"a">>),
                 contentUrl |-> Some(Https(<<"a">>)), encodingFormat |-> Some("image/tiff"),
                 sha256 |-> Some("hash-a")]>>]}
    \cup {[BaseCroissant EXCEPT !.field = f] : f \in FieldLists}

\* documents with a temporal coverage
TemporalCroissants ==
    {[BaseCroissant EXCEPT !.temporalCoverage = Some(t)] :
        t \in {<<Ts(0, TRUE, "Z")>>,
               <<Ts(0, TRUE, "Z"), Slash, Ts(HoursPerDay, TRUE, "Z")>>,
               <<Ts(HoursPerDay, TRUE, ""), Slash, Ts(0, TRUE, "")>>,
               <<Ts(0, FALSE, ""), Slash, Ts(1, TRUE, "Z")>>}}

CroissantDocs == BoxCroissants \cup BandCroissants \cup DistributionCroissants
                 \cup TemporalCroissants

WalkedFile == [dir : {1, 2}, stem : {1, 2}, suffix : {"_merged.tif", ".mask.tif"}]

RECURSIVE DistinctSeqs(_, _)
\* the lists of at most n distinct elements of S
DistinctSeqs(S, n) ==
    IF n = 0 THEN {<<>>}
    ELSE LET shorter == DistinctSeqs(S, n - 1)
         IN  shorter \cup UNION {{Append(l, x) : x \in S \ Range(l)} :
                                    l \in {m \in shorter : Len(m) = n - 1}}

\* what the file system can hold for a document: the data directory can exist
\* only where the first FileObject names a local directory.  Every listing is
\* tried with the documents that vary the record-set fields, the empty and the
\* one-pair listing with the others.
Walks(g) ==
    LET objs == SelectSeq(g.distribution, LAMBDA d : d.type = "cr:FileObject")
        local == objs # <<>> /\ Opt(objs[1], "contentUrl") = Some(LocalDir)
        pair == <<[dir |-> 1, stem |-> 1, suffix |-> ".mask.tif"],
                  [dir |-> 1, stem |-> 1, suffix |-> "_merged.tif"]>>
    IN  IF ~local THEN {None}
        ELSE IF g.spatialCoverage = None /\ g.spectralBandMetadata = None
                /\ g.temporalCoverage = None /\ g.coordinates = None
        THEN {None} \cup {Some(l) : l \in DistinctSeqs(WalkedFile, MaxFiles)}
        ELSE {None, Some(<<>>), Some(pair)}

-----------------------------------------------------------------------------
(* The export run: GeoCroissant -> STAC, GeoCroissant -> TDML -> GeoCroissant *)

InitExport ==
    /\ NoScriptRun
    /\ pc = "loaded"
    /\ clock \in ClockStarts
    /\ \E g \in CroissantDocs :
         /\ croissant = Some(g)
         /\ walked \in Walks(g)
    /\ item = None
    /\ tdml_obj = None
    /\ geocroissant = None
    /\ stac_dict = None /\ croissant_rerun = None /\ warnings = <<>> /\ item_rerun = None
    /\ items_list = None /\ timeseries = None
    /\ variables = None /\ fields = None

\* the STAC exporter runs on the document
ExportToStac ==
    /\ pc = "loaded"
    /\ item' = Some(geocroissant_to_stac(croissant[1], clock))
    /\ pc' = "stac-written"
    /\ UNCHANGED <<callRun, scriptRun, clock, croissant, stacRun, tdmlRun, timeseriesRun, sdoRun>>

\* the TDML exporter runs on the same document
ConvertGeocroissantToTdml ==
    /\ pc = "stac-written"
    /\ tdml_obj' = Some(convert_geocroissant_to_tdml_objectmodel(croissant[1], walked))
    /\ pc' = "tdml-written"
    /\ UNCHANGED <<callRun, scriptRun, clock, croissant, item, walked, geocroissant,
                   stacRun, timeseriesRun, sdoRun>>

\* the TDML file, when one was written, is read back by the importer
TdmlToGeocroissant ==
    /\ pc = "tdml-written"
    /\ tdml_obj[1].ok
    /\ geocroissant' = Some(tdml_to_geocroissant(tdml_obj[1]))
    /\ pc' = "reimported"
    /\ UNCHANGED <<callRun, scriptRun, clock, croissant, item, walked, tdml_obj,
                   stacRun, timeseriesRun, sdoRun>>

NextExport ==
    \/ ExportToStac
    \/ ConvertGeocroissantToTdml
    \/ TdmlToGeocroissant

SpecExport == InitExport /\ [][NextExport]_vars

-----------------------------------------------------------------------------
(* Properties of the export run *)

TdmlWritten == pc \in {"tdml-written", "reimported"}

\* C2: a box string 's w n e' is exported as [w, s, e, n] by geocroissant_to_stac
\* (bbox) and by convert_geocroissant_to_tdml_objectmodel (extent), whenever the
\* latter writes a dataset at all; in particular "10 20 30 40" gives [20, 10, 40, 30].
C2_BoxExportedWestSouthEastNorth ==
    (TdmlWritten /\ Truthy(croissant[1].spatialCoverage)) =>
        \A s \in BoxNumbers, w \in BoxNumbers, n \in BoxNumbers, e \in BoxNumbers :
            croissant[1].spatialCoverage = Some(BoxText(s, w, n, e)) =>
                /\ item[1].ok
                /\ SeqNumEq(item[1].bbox, <<w, s, e, n>>)
                /\ walked = None => tdml_obj[1].ok
                /\ tdml_obj[1].ok =>
                     /\ tdml_obj[1].extent # None
                     /\ SeqNumEq(tdml_obj[1].extent[1], <<w, s, e, n>>)

\* C2 witness: "10 20 30 40" came out of both exporters as [20.0, 10.0, 40.0, 30.0]
C2_Witness ==
    /\ TdmlWritten
    /\ croissant[1].spatialCoverage =
          Some(<<"1", "0", " ", "2", "0", " ", "3", "0", " ", "4", "0">>)
    /\ item[1].ok
    /\ item[1].bbox = <<PyFloat(200), PyFloat(100), PyFloat(400), PyFloat(300)>>
    /\ tdml_obj[1].ok
    /\ tdml_obj[1].extent = Some(<<PyFloat(200), PyFloat(100), PyFloat(400), PyFloat(300)>>)

BandNameRead(band) == GetOr(Opt(band, "name"), <<>>)
ImageFieldOf(g) == LastField(GetOr(Opt(g, "field"), <<>>), "image")

\* C3: when a document with a non-empty geocr:spectralBandMetadata list is
\* exported by convert_geocroissant_to_tdml_objectmodel and the TDML is read
\* back by tdml_to_geocroissant, the geocr:spectralBandMetadata list and the
\* image field's band name list have as many bands as the original, with the
\* same names in the same order (a band written without a name reads as "").
C3_BandNamesRoundTrip ==
    (pc = "reimported" /\ Truthy(croissant[1].spectralBandMetadata)) =>
        LET original == croissant[1].spectralBandMetadata[1]
            names == [i \in DOMAIN original |-> BandNameRead(original[i])]
            back == geocroissant[1].spectralBandMetadata
            image_field == ImageFieldOf(geocroissant[1])
        IN  /\ back # None
            /\ [i \in DOMAIN back[1] |-> back[1][i].name] = [i \in DOMAIN names |-> Some(names[i])]
            /\ image_field # None
            /\ image_field[1].bandConfiguration # None
            /\ image_field[1].bandConfiguration[1].bandNameList = names
            /\ image_field[1].bandConfiguration[1].totalBands = Len(names)

\* C3 witness: the bands "B1" (665 nm) and "a b" went through TDML and came back
C3_Witness ==
    /\ pc = "reimported"
    /\ croissant[1].spectralBandMetadata =
          Some(<<[name |-> Some(B1),
                  centerWavelength |-> Some([value |-> PyInt(665), unitText |-> <<"n", "m">>])],
                 [name |-> Some(<<"a", " ", "b">>), centerWavelength |-> None]>>)
    /\ tdml_obj[1].bands[1].units = Some(<<"6", "6", "5", "n", "m">>)
    /\ geocroissant[1].spectralBandMetadata[1][1].name = Some(B1)
    /\ geocroissant[1].spectralBandMetadata[1][2].name = Some(<<"a", " ", "b">>)

-----------------------------------------------------------------------------
(* SDO NetCDF -> GeoCroissant: SDOGeoCroissantConverter._generate_field_definitions *)

\* longest variable list of a NetCDF file
MaxVariables == 3

\* f"{var_name}_band{i+1}" for i in range(num_bands)
SdoBandNames(var_name, num_bands) ==
    [i \in 1..num_bands |-> var_name \o <<"_", "b", "a", "n", "d">> \o Digits(i)]

\* a plausible slip: only the bands-last layout (y, x, bands) is recognised
SdoNumBandsLastOnly(shape) ==
    IF Len(shape) = 3 /\ shape[3] < shape[1] /\ shape[3] < shape[2] THEN shape[3] ELSE 1

\* lines 142-152: the band count inferred from the shape (Python indexes from 0)
SdoNumBands(shape) ==
    IF Len(shape) = 3
    THEN IF shape[1] < shape[2] /\ shape[1] < shape[3] THEN shape[1]
         ELSE IF shape[3] < shape[1] /\ shape[3] < shape[2] THEN shape[3]
         ELSE 1
    ELSE 1

AiaBands == {<<"a", "i", "a", "9", "4">>}
HmiNames == {<<"h", "m", "i", "_", "m">>}

\* lines 113-136: what the description is made of
SdoDescription(var_info) ==
    [text |-> IF var_info.name \in AiaBands THEN "aia-channel"
              ELSE IF var_info.name \in HmiNames THEN "hmi-magnetogram"
              ELSE IF var_info.description # <<>> THEN var_info.description[1]
              ELSE "",
     unit |-> IF Truthy(var_info.unit) THEN var_info.unit ELSE None,
     dimensions |-> IF Len(var_info.shape) = 2
                    THEN Some(<<var_info.shape[1], var_info.shape[2]>>) ELSE None]

\* lines 111-179: the field of one variable
SdoField(var_info) ==
    LET var_name == var_info.name
        num_bands == SdoNumBands(var_info.shape)
        band_names == IF Len(var_info.shape) = 3 /\ num_bands > 1
                      THEN SdoBandNames(var_name, num_bands)
                      ELSE <<var_name>>
    IN  [id |-> Some(<<"s", "d", "o", "/">> \o var_name),
         name |-> Some(var_name),
         description |-> SdoDescription(var_info),
         fileSet |-> Some(<<"n", "c", "-", "f", "i", "l", "e", "s">>),
         column |-> var_name,
         bandConfiguration |-> Some([totalBands |-> num_bands,
                                     bandNamesList |-> band_names])]

\* one field per variable, in the order of the dict
generate_field_definitions(vs) == [i \in DOMAIN vs |-> SdoField(vs[i])]

\* sizes of the axes of a variable; a record dimension without records has size 0
Dims == {13, 512}
Shapes == {<<>>, <<512>>, <<13, 13, 512, 512>>, <<0, 512, 512>>}
          \cup {<<a, b>> : a \in Dims, b \in Dims}
          \cup {<<a, b, c>> : a \in Dims, b \in Dims, c \in Dims}

VariableNames == AiaBands \cup HmiNames \cup {<<"a">>}

\* the variables of the sample file: distinct names, any shapes; the attributes
\* vary on a single-variable file
VariableLists ==
    UNION {{[i \in DOMAIN names |->
               [name |-> names[i], shape |-> shapes[i], unit |-> None, description |-> None]] :
              shapes \in {s \in SeqsUpTo(Shapes, MaxVariables) : Len(s) = Len(names)}} :
           names \in DistinctSeqs(VariableNames, MaxVariables)}
    \cup {<<[name |-> nm, shape |-> <<512, 512>>, unit |-> u, description |-> d]>> :
            nm \in VariableNames, u \in OptOf({<<>>, <<"G">>}), d \in OptOf({"stored"})}

InitSdo ==
    /\ NoScriptRun
    /\ pc = "sdo-opened"
    /\ clock \in ClockStarts
    /\ variables \in VariableLists
    /\ fields = None
    /\ croissant = None /\ item = None
    /\ stac_dict = None /\ croissant_rerun = None /\ warnings = <<>> /\ item_rerun = None
    /\ walked = None /\ tdml_obj = None /\ geocroissant = None
    /\ items_list = None /\ timeseries = None

\* the converter builds the field definitions of the sample file
GenerateFieldDefinitions ==
    /\ pc = "sdo-opened"
    /\ fields' = Some(generate_field_definitions(variables))
    /\ pc' = "sdo-fields"
    /\ UNCHANGED <<callRun, scriptRun, clock, croissant, item, variables, stacRun, tdmlRun, timeseriesRun>>

NextSdo == GenerateFieldDefinitions

SpecSdo == InitSdo /\ [][NextSdo]_vars

-----------------------------------------------------------------------------
(* Properties of the SDO field definitions *)

\* C6: a variable of shape (13, 512, 512) gets totalBands 13, one of shape
\* (512, 512, 13) gets totalBands 13, and every 2-dimensional variable such as
\* (512, 512) gets exactly one band, named after the variable.
C6_BandAxisInference ==
    pc = "sdo-fields" =>
        /\ Len(fields[1]) = Len(variables)
        /\ \A i \in DOMAIN variables :
             LET shape == variables[i].shape
                 cfg == fields[1][i].bandConfiguration[1]
             IN  /\ shape \in {<<13, 512, 512>>, <<512, 512, 13>>} =>
                        /\ cfg.totalBands = 13
                        /\ Len(cfg.bandNamesList) = 13
                 /\ Len(shape) = 2 =>
                        /\ cfg.totalBands = 1
                        /\ cfg.bandNamesList = <<variables[i].name>>

\* C6 witness: a file with the three shapes of the scenario, in this order:
\* (13, 512, 512), (512, 512, 13), (512, 512)
C6_Witness ==
    /\ pc = "sdo-fields"
    /\ [i \in DOMAIN variables |-> variables[i].shape]
          = << <<13, 512, 512>>, <<512, 512, 13>>, <<512, 512>> >>
    /\ fields[1][1].bandConfiguration[1].totalBands = 13
    /\ fields[1][1].bandConfiguration[1].bandNamesList[13]
          = variables[1].name \o <<"_", "b", "a", "n", "d", "1", "3">>
    /\ fields[1][2].bandConfiguration[1].totalBands = 13
    /\ fields[1][3].bandConfiguration[1].totalBands = 1
    /\ fields[1][3].bandConfiguration[1].bandNamesList = <<variables[3].name>>

-----------------------------------------------------------------------------
(* STAC items -> GeoCroissant time series: convert_items_to_geocroissant *)

\* longest list of monthly items
MaxItems == 2

\* float('inf') and float('-inf')
PosInf == [ty |-> "float", inf |-> 1]
NegInf == [ty |-> "float", inf |-> -1]
IsInf(x) == "inf" \in DOMAIN x

\* x < y on Python numbers, infinities included
NumLess(x, y) ==
    IF IsInf(x) THEN x.inf = -1 /\ y # NegInf
    ELSE IF IsInf(y) THEN y.inf = 1
    ELSE x.tenths < y.tenths

\* min(a, b) and max(a, b): the first argument unless the second beats it
Min2(a, b) == IF NumLess(b, a) THEN b ELSE a
Max2(a, b) == IF NumLess(a, b) THEN b ELSE a

\* str(x), infinities included
NumStr(x) ==
    IF IsInf(x) THEN (IF x.inf = 1 THEN <<"i", "n", "f">> ELSE <<"-", "i", "n", "f">>)
    ELSE PyStr(x)

\* datetime.fromisoformat(dt_str.replace('Z', '+00:00'))
ParseItemDatetime(ts) ==
    IF ts.tok = "ts" /\ ts.zone \in {"", "Z", "+00:00"}
    THEN [ok |-> TRUE, hours |-> ts.hours, aware |-> ts.zone # ""]
    ELSE ValueError

\* dt.isoformat()
IsoFormat(dt) == Ts(dt.hours, TRUE, IF dt.aware THEN "+00:00" ELSE "")

RECURSIVE TimeSeriesExtents(_, _)
\* lines 84-98: the running minimum and maximum of dates and coordinates
TimeSeriesExtents(list, acc) ==
    IF list = <<>> \/ ~acc.ok THEN acc
    ELSE LET it == Head(list)
             dt_str == Opt(it, "datetime")
             dt == IF dt_str # <<>> THEN ParseItemDatetime(dt_str[1]) ELSE [ok |-> TRUE]
             mixed == /\ dt_str # <<>> /\ dt.ok /\ acc.min_date # <<>>
                      /\ acc.min_date[1].aware # dt.aware
             bbox == GetOr(Opt(it, "bbox"), <<>>)
             with_dates ==
                 IF dt_str = <<>> THEN acc
                 ELSE [acc EXCEPT
                         !.min_date = IF acc.min_date = <<>> \/ dt.hours < acc.min_date[1].hours
                                      THEN Some(dt) ELSE @,
                         !.max_date = IF acc.max_date = <<>> \/ dt.hours > acc.max_date[1].hours
                                      THEN Some(dt) ELSE @]
             with_box ==
                 IF Len(bbox) >= 4
                 THEN [with_dates EXCEPT !.min_lon = Min2(@, bbox[1]), !.min_lat = Min2(@, bbox[2]),
                                         !.max_lon = Max2(@, bbox[3]), !.max_lat = Max2(@, bbox[4])]
                 ELSE with_dates
         IN  IF dt_str # <<>> /\ ~dt.ok THEN ValueError
             ELSE IF mixed THEN TypeError
             ELSE TimeSeriesExtents(Tail(list), with_box)

\* 'B' in asset_key
IsBandKey(asset_key) == \E i \in DOMAIN asset_key : asset_key[i] = "B"

\* lines 105-125: band names and spectral band entries from the first item
TimeSeriesBands(first_item) ==
    LET assets == GetOr(Opt(first_item, "assets"), <<>>)
        band_assets == SelectSeq(assets, LAMBDA a : IsBandKey(a.key))
        described == SelectSeq(band_assets, LAMBDA a : GetOr(Opt(a, "eo_bands"), <<>>) # <<>>)
    IN  [band_names |-> [i \in DOMAIN band_assets |-> band_assets[i].key],
         spectral_bands |->
            [i \in DOMAIN described |->
                [name |-> Some(GetOr(Opt(described[i].eo_bands[1][1], "common_name"),
                                     described[i].key)),
                 centerWavelength |->
                    Some([value |-> Opt(described[i].eo_bands[1][1], "center_wavelength"),
                          unitText |-> <<"n", "m">>])]]]

\* lines 241-255: the URL of the granule, from the asset of the first band name
GranuleBaseUrl(it, band_names) ==
    LET assets == GetOr(Opt(it, "assets"), <<>>)
        hit == IF band_names # <<>>
               THEN SelectSeq(assets, LAMBDA a : a.key = band_names[1]) ELSE <<>>
        href == IF hit # <<>> THEN GetOr(Opt(hit[1], "href"), EmptyUrl) ELSE EmptyUrl
    IN  IF href = EmptyUrl THEN EmptyUrl
        ELSE IF href.band THEN [scheme |-> href.scheme, path |-> href.path, stem |-> href.stem]
        ELSE [scheme |-> href.scheme, path |-> href.path]

GranuleId(idx) == <<"g", "r", "a", "n", "u", "l", "e", "_">> \o Digits(idx)
                  \o <<"_", "b", "a", "n", "d", "s">>
ItemId(idx) == <<"i", "t", "e", "m", "_">> \o Digits(idx)

\* lines 235-268: one FileSet per item
TimeSeriesFileSet(it, idx, band_names) ==
    [type |-> "cr:FileSet",
     id |-> Some(GranuleId(idx)),
     name |-> Some(GetOr(Opt(it, "id"), ItemId(idx))
                   \o <<"_", "s", "p", "e", "c", "t", "r", "a", "l", "_", "b", "a", "n", "d", "s">>),
     contentUrl |-> Some(GranuleBaseUrl(it, band_names)),
     encodingFormat |-> Some("image/tiff"),
     includes |-> Some("*.tif")]

\* lines 353-366: the example record of one of the first two items
TimeSeriesExample(it, idx) ==
    LET dt_str == Opt(it, "datetime")
        dt_obj == IF dt_str # <<>> THEN ParseItemDatetime(dt_str[1]) ELSE ValueError
    IN  IF ~dt_obj.ok THEN dt_obj
        ELSE [ok |-> TRUE,
              granule_id |-> GetOr(Opt(it, "id"), ItemId(idx)),
              observation_datetime |-> dt_str[1],
              \* strftime("%Y-%m"); the model calendar has no months, the day stands in
              month |-> dt_obj.hours \div HoursPerDay]

\* lines 279-345: the names of the record-set fields
TimeSeriesFields == <<"granule_id", "observation_datetime", "month", "platform", "cloud_cover">>

\* the dataset returned, the empty dict for an empty list, or the exception raised
convert_items_to_geocroissant(list, now) ==
    LET extents == TimeSeriesExtents(list,
                      [ok |-> TRUE, min_date |-> None, max_date |-> None,
                       min_lon |-> PosInf, min_lat |-> PosInf,
                       max_lon |-> NegInf, max_lat |-> NegInf])
        bands == TimeSeriesBands(list[1])
        shown == SubSeq(list, 1, IF Len(list) < 2 THEN Len(list) ELSE 2)
        examples == [idx \in DOMAIN shown |-> TimeSeriesExample(shown[idx], idx)]
    IN  IF list = <<>> THEN [ok |-> TRUE, empty |-> TRUE]
        ELSE IF ~extents.ok THEN extents
        ELSE IF \E idx \in DOMAIN examples : ~examples[idx].ok THEN ValueError
        ELSE [ok |-> TRUE, empty |-> FALSE,
              datePublished |-> IF extents.min_date # <<>>
                                THEN IsoFormat(extents.min_date[1]) ELSE Ts(now, TRUE, ""),
              spatialCoverage |-> Some(NumStr(extents.min_lat) \o <<" ">>
                                       \o NumStr(extents.min_lon) \o <<" ">>
                                       \o NumStr(extents.max_lat) \o <<" ">>
                                       \o NumStr(extents.max_lon)),
              temporalCoverage |-> IF extents.min_date # <<>> /\ extents.max_date # <<>>
                                   THEN Some(<<IsoFormat(extents.min_date[1]), Slash,
                                               IsoFormat(extents.max_date[1])>>)
                                   ELSE None,
              bandConfiguration |-> [totalBands |-> Len(bands.band_names),
                                     bandNameList |-> bands.band_names],
              spectralBandMetadata |-> Some(bands.spectral_bands),
              distribution |-> [idx \in DOMAIN list |->
                                   TimeSeriesFileSet(list[idx], idx, bands.band_names)],
              fileSetOfFields |-> GranuleId(1),
              timeSeriesIndex |-> "observation_datetime",
              field |-> TimeSeriesFields,
              examples |-> examples]

\* asset hrefs: https://<path>/<stem>[.Bxx.tif][?<token>]
BandHref(band, token) ==
    [scheme |-> "https", path |-> <<"d">>, stem |-> <<"g">>, band |-> band, token |-> token]

ItemAssetLists ==
    {<<>>,
     <<[key |-> <<"B", "1">>, href |-> Some(BandHref(TRUE, TRUE)),
        eo_bands |-> Some(<<[common_name |-> Some(<<"a">>), center_wavelength |-> Some(PyInt(4430))]>>)]>>,
     <<[key |-> <<"a">>, href |-> Some(BandHref(FALSE, FALSE)), eo_bands |-> None],
       [key |-> <<"B", "1">>, href |-> Some(BandHref(FALSE, TRUE)), eo_bands |-> Some(<<>>)],
       [key |-> <<"B", "2">>, href |-> None,
        eo_bands |-> Some(<<[common_name |-> None, center_wavelength |-> None]>>)]>>,
     <<[key |-> <<"B", "2">>, href |-> None, eo_bands |-> None]>>}

BaseItem ==
    [id |-> Some(<<"g", "1">>), datetime |-> Some(Ts(0, TRUE, "Z")),
     bbox |-> Some(<<PyInt(0), PyInt(10), PyInt(20), PyInt(30)>>),
     assets |-> Some(<<[key |-> <<"B", "1">>, href |-> Some(BandHref(TRUE, TRUE)),
                        eo_bands |-> None]>>)]

\* items with every combination of datetime and bbox, or of id and assets
ItemVariants ==
    {[BaseItem EXCEPT !.datetime = t, !.bbox = b] :
        t \in OptOf({Ts(0, TRUE, "Z"), Ts(HoursPerDay + 1, TRUE, "Z"), Ts(1, TRUE, "")}),
        b \in OptOf({<<PyInt(0), PyInt(10), PyInt(20), PyInt(30)>>,
                     <<PyFloat(-5), PyFloat(125), PyInt(0), PyInt(40)>>,
                     <<PyInt(0), PyInt(10)>>})}
    \cup {[BaseItem EXCEPT !.id = i, !.assets = a] :
            i \in OptOf({<<"g", "1">>}), a \in OptOf(ItemAssetLists)}

\* the orderings of a list
Orderings(list) ==
    {[i \in DOMAIN list |-> list[p[i]]] :
        p \in {f \in [DOMAIN list -> DOMAIN list] : \A i, j \in DOMAIN list : f[i] = f[j] => i = j}}

\* two dated items and one without datetime, in every order
UndatedAmongThree ==
    Orderings(<<BaseItem, [BaseItem EXCEPT !.datetime = Some(Ts(HoursPerDay + 1, TRUE, "Z"))],
                   [BaseItem EXCEPT !.datetime = None]>>)

ItemLists == SeqsUpTo(ItemVariants, MaxItems) \cup UndatedAmongThree

InitTimeSeries ==
    /\ NoScriptRun
    /\ pc = "items-fetched"
    /\ clock \in ClockStarts
    /\ items_list \in ItemLists
    /\ timeseries = None
    /\ croissant = None /\ item = None
    /\ stac_dict = None /\ croissant_rerun = None /\ warnings = <<>> /\ item_rerun = None
    /\ walked = None /\ tdml_obj = None /\ geocroissant = None
    /\ variables = None /\ fields = None

\* the converter runs on the fetched items
ConvertItemsToGeocroissant ==
    /\ pc = "items-fetched"
    /\ timeseries' = Some(convert_items_to_geocroissant(items_list, clock))
    /\ pc' = "items-converted"
    /\ UNCHANGED <<callRun, scriptRun, clock, croissant, item, items_list, stacRun, tdmlRun, sdoRun>>

NextTimeSeries == ConvertItemsToGeocroissant

SpecTimeSeries == InitTimeSeries /\ [][NextTimeSeries]_vars

-----------------------------------------------------------------------------
(* Properties of the time-series run *)

\* the FileSet at position i has a non-empty includes pattern and is contained
\* in a FileObject declared before it
WellContained(distribution, i) ==
    /\ Opt(distribution[i], "includes") \notin {None, Some("")}
    /\ Opt(distribution[i], "containedIn") # None
    /\ \E j \in 1..(i - 1) :
         /\ distribution[j].type = "cr:FileObject"
         /\ Opt(distribution[j], "id") = Opt(distribution[i], "containedIn")

\* C9: every cr:FileSet of an emitted document carries a non-empty includes
\* pattern and a containedIn reference to a cr:FileObject that appears earlier
\* in the same distribution list.  Stated for convert_items_to_geocroissant.
C9_FileSetsContained ==
    (pc = "items-converted" /\ timeseries[1].ok /\ ~timeseries[1].empty) =>
        \A i \in DOMAIN timeseries[1].distribution :
            timeseries[1].distribution[i].type = "cr:FileSet"
                => WellContained(timeseries[1].distribution, i)

\* every datetime the items carry is a well-formed UTC timestamp; any may be missing
DatetimesWellFormed ==
    \A i \in DOMAIN items_list :
        Opt(items_list[i], "datetime") \in {None} \cup {Some(Ts(h, TRUE, "Z")) : h \in 0..ClockEnd}

\* C11: the adapter does not raise when optional fields of the source items
\* (id, bbox, properties.datetime, assets) are missing or empty; it returns a
\* document.  Stated for convert_items_to_geocroissant.
C11_MissingOptionalNeverRaises ==
    (pc = "items-converted" /\ DatetimesWellFormed) => timeseries[1].ok

-----------------------------------------------------------------------------
(* GeoCroissant -> GeoDCAT: geocroissant_to_geodcat_jsonld *)

KeyError == [ok |-> FALSE, error |-> "KeyError"]

\* urllib.parse.quote(c, safe=''): letters, digits and _ . - ~ stay, the rest is %XX
QuoteChar(c) ==
    IF c = " " THEN <<"%", "2", "0">>
    ELSE IF c = "/" THEN <<"%", "2", "F">>
    ELSE <<c>>

RECURSIVE Quote(_)
Quote(name) == IF name = <<>> THEN <<>> ELSE QuoteChar(Head(name)) \o Quote(Tail(name))

\* lines 61-76: the WKT polygon built from the four tokens of the box, as written
DcatSpatial(g) ==
    LET bbox == Split(GetOr(Opt(g, "spatialCoverage"), <<>>))
    IN  IF Opt(g, "spatialCoverage") # None /\ Len(bbox) = 4
        THEN LET south == bbox[1]
                 west  == bbox[2]
                 north == bbox[3]
                 east  == bbox[4]
             IN  Some(<< <<west, south>>, <<east, south>>, <<east, north>>,
                         <<west, north>>, <<west, south>> >>)
        ELSE None

\* lines 78-87: the period of time, when the coverage holds a "/"
DcatTemporal(g) ==
    LET temporal_coverage == GetOr(Opt(g, "temporalCoverage"), <<>>)
        pieces == SplitOn(temporal_coverage, Slash)
    IN  IF \E i \in DOMAIN temporal_coverage : temporal_coverage[i] = Slash
        THEN IF Len(pieces) # 2 THEN ValueError
             ELSE [ok |-> TRUE, period |-> Some([startDate |-> pieces[1], endDate |-> pieces[2]])]
        ELSE [ok |-> TRUE, period |-> None]

\* lines 119-156: the dcat:Distribution of one FileObject or FileSet
DcatDistribution(dist) ==
    [kind |-> dist.type,
     id |-> GetOr(Opt(dist, "id"),
                  IF dist.type = "cr:FileObject"
                  THEN <<"d", "i", "s", "t", "r", "i", "b", "u", "t", "i", "o", "n">>
                  ELSE <<"f", "i", "l", "e", "s", "e", "t">>),
     title |-> Opt(dist, "name"),
     accessURL |-> IF dist.type = "cr:FileObject" THEN Opt(dist, "contentUrl") ELSE None,
     mediaType |-> Opt(dist, "encodingFormat"),
     checksum |-> IF dist.type = "cr:FileObject" THEN Opt(dist, "md5") ELSE None,
     includes |-> IF dist.type = "cr:FileSet" THEN Opt(dist, "includes") ELSE None]

\* lines 9-184: the graph assembled in memory, or the exception raised
geocroissant_to_geodcat_graph(g) ==
    LET temporal == DcatTemporal(g)
        listed == SelectSeq(g.distribution,
                            LAMBDA d : d.type \in {"cr:FileObject", "cr:FileSet"})
    IN  IF Opt(g, "name") = None \/ Opt(g, "description") = None THEN KeyError
        ELSE IF ~temporal.ok THEN temporal
        ELSE [ok |-> TRUE,
              dataset_uri |-> Quote(g.name[1]),
              title |-> g.name[1],
              description |-> g.description[1],
              issued |-> Opt(g, "datePublished"),
              spatial |-> DcatSpatial(g),
              temporal |-> temporal.period,
              distributions |-> [i \in DOMAIN listed |-> DcatDistribution(listed[i])]]

-----------------------------------------------------------------------------
(* Command-line runs of the two exporter scripts, phase by phase *)

\* the name assumed for the two scripts
TdmlScript == Some("geocr-to-ogc_tdml")
GeodcatScript == Some("geocroissant_to_geodcat")

\* the document with a "description" key
Described(g) == [description |-> Some(<<"d">>)] @@ g

\* documents read by the scripts: with and without the keys the GeoDCAT exporter
\* indexes, with boxes well formed or not, with and without data entries
ScriptDocs ==
    LET docs == DistributionCroissants \cup TemporalCroissants
                \cup {[BaseCroissant EXCEPT !.spatialCoverage = Some(b)] : b \in MalformedBoxes}
                \cup {[BaseCroissant EXCEPT !.temporalCoverage =
                          Some(<<Ts(0, TRUE, "Z"), Slash, Ts(1, TRUE, "Z"), Slash, Ts(1, TRUE, "Z")>>)],
                      [BaseCroissant EXCEPT !.name = None]}
    IN  {Described(g) : g \in docs} \cup {[description |-> None] @@ BaseCroissant}

\* the output files of a script, in the order the script writes them
OutputFiles(script) ==
    IF script = TdmlScript THEN <<"tdml_output_path">>
    ELSE <<"geodcat.jsonld", "geodcat.ttl">>

\* a plausible slip: the exception of the assembly is swallowed and the run goes on
AfterAssemblyGoesOn(result) == "assembled"

\* where the run stands after an assembly that returned or raised
AfterAssembly(result) == IF result.ok THEN "assembled" ELSE "failed"

InitScript ==
    /\ pc = "script-start"
    /\ clock \in ClockStarts
    /\ tool \in {TdmlScript, GeodcatScript}
    /\ \E g \in ScriptDocs :
         /\ source_file \in {None, Some(g)}
         /\ walked \in Walks(g)
    /\ phases = <<>> /\ outputs = <<>> /\ graph = None
    /\ NoCall
    /\ croissant = None /\ item = None
    /\ tdml_obj = None /\ geocroissant = None
    /\ stac_dict = None /\ croissant_rerun = None /\ warnings = <<>> /\ item_rerun = None
    /\ items_list = None /\ timeseries = None
    /\ variables = None /\ fields = None

\* open() and json.load() of the input path; an unreadable file raises
ReadSource ==
    /\ pc = "script-start"
    /\ phases' = Append(phases, "read")
    /\ croissant' = source_file
    /\ pc' = IF source_file = None THEN "failed" ELSE "read"
    /\ UNCHANGED <<callRun, clock, item, tool, source_file, outputs, graph,
                   stacRun, tdmlRun, timeseriesRun, sdoRun>>

\* geocr-to-ogc_tdml.py, lines 16-322: the object model is built, or the run raises
AssembleTdml ==
    /\ pc = "read" /\ tool = TdmlScript
    /\ LET result == convert_geocroissant_to_tdml_objectmodel(croissant[1], walked)
       IN  /\ tdml_obj' = Some(result)
           /\ pc' = AfterAssembly(result)
    /\ phases' = Append(phases, "assemble")
    /\ UNCHANGED <<callRun, clock, croissant, item, walked, geocroissant, tool, source_file, outputs,
                   graph, stacRun, timeseriesRun, sdoRun>>

\* geocr-to-ogc_tdml.py, line 325: pytdml.io.write_to_json
WriteTdml ==
    /\ pc = "assembled" /\ tool = TdmlScript
    /\ outputs' = Append(outputs, [file |-> "tdml_output_path", content |-> tdml_obj[1]])
    /\ phases' = Append(phases, "write")
    /\ pc' = "written"
    /\ UNCHANGED <<callRun, clock, croissant, item, tool, source_file, graph,
                   stacRun, tdmlRun, timeseriesRun, sdoRun>>

\* geocroissant_to_geodcat.py, lines 9-184: the graph is built, or the run raises
AssembleGeodcat ==
    /\ pc = "read" /\ tool = GeodcatScript
    /\ LET result == geocroissant_to_geodcat_graph(croissant[1])
       IN  /\ graph' = Some(result)
           /\ pc' = AfterAssembly(result)
    /\ phases' = Append(phases, "assemble")
    /\ UNCHANGED <<callRun, clock, croissant, item, tool, source_file, outputs,
                   stacRun, tdmlRun, timeseriesRun, sdoRun>>

\* geocroissant_to_geodcat.py, line 187: g.serialize(..., format="json-ld")
SerializeJsonLd ==
    /\ pc = "assembled" /\ tool = GeodcatScript
    /\ outputs' = Append(outputs, [file |-> "geodcat.jsonld", content |-> graph[1]])
    /\ phases' = Append(phases, "write")
    /\ pc' = "jsonld-written"
    /\ UNCHANGED <<callRun, clock, croissant, item, tool, source_file, graph,
                   stacRun, tdmlRun, timeseriesRun, sdoRun>>

\* geocroissant_to_geodcat.py, line 190: g.serialize(..., format="turtle")
SerializeTurtle ==
    /\ pc = "jsonld-written"
    /\ outputs' = Append(outputs, [file |-> "geodcat.ttl", content |-> graph[1]])
    /\ phases' = Append(phases, "write")
    /\ pc' = "written"
    /\ UNCHANGED <<callRun, clock, croissant, item, tool, source_file, graph,
                   stacRun, tdmlRun, timeseriesRun, sdoRun>>

NextScript ==
    \/ ReadSource
    \/ AssembleTdml
    \/ WriteTdml
    \/ AssembleGeodcat
    \/ SerializeJsonLd
    \/ SerializeTurtle

SpecScript == InitScript /\ [][NextScript]_vars

\* s is an initial part of t
IsPrefix(s, t) == Len(s) <= Len(t) /\ SubSeq(t, 1, Len(s)) = s

\* what the run assembled in memory, if it got that far
Assembled == IF tool = TdmlScript THEN tdml_obj ELSE graph

\* C12: a run reads the source, assembles the output document and writes it, each
\* phase once and in this order (one write per output file); a run that fails
\* while reading or assembling has written no output file, and every file on
\* disk holds a completely assembled document.
C12_PhasesInOrderNoPartialOutput ==
    pc \in {"script-start", "read", "failed", "assembled", "jsonld-written", "written"} =>
        /\ IsPrefix(phases, <<"read", "assemble">> \o [i \in DOMAIN OutputFiles(tool) |-> "write"])
        /\ IsPrefix([i \in DOMAIN outputs |-> outputs[i].file], OutputFiles(tool))
        /\ \A i \in DOMAIN outputs : outputs[i].content.ok
        /\ (pc = "failed" \/ (Assembled # None /\ ~Assembled[1].ok)) => outputs = <<>>
        /\ pc = "written" => Len(outputs) = Len(OutputFiles(tool))

\* the TDML exporter found no data entries, raised during assembly, and left no file
C12_Witness ==
    /\ pc = "failed" /\ tool = TdmlScript
    /\ phases = <<"read", "assemble">>
    /\ croissant # None /\ tdml_obj = Some(ValueError)
    /\ TdmlExtent(croissant[1]).ok
    /\ outputs = <<>>

\* C13: the name of the emitted dataset is never empty: when the title of the
\* source is absent or the empty string, the name falls back to the identifier
\* of the source.  Stated for stac_to_geocroissant.
C13_NameNeverEmpty ==
    Converted =>
        /\ croissant[1].name \notin {None, Some(<<>>)}
        /\ ~Truthy(stac_dict.title) /\ Truthy(stac_dict.id) =>
              croissant[1].name = Some(sanitize_name(stac_dict.id[1]))

\* the numbers a box emitted for the fetched items can be made of
ItemCoordinates ==
    {PosInf, NegInf}
    \cup UNION {Range(GetOr(Opt(items_list[i], "bbox"), <<>>)) : i \in DOMAIN items_list}

\* C14: the box emitted for a non-empty item list, "south west north east", has
\* south <= north and west <= east, also when no item of the list has a bbox.
\* Stated for convert_items_to_geocroissant.
C14_BoxOrdered ==
    (pc = "items-converted" /\ timeseries[1].ok /\ items_list # <<>>) =>
        \E south \in ItemCoordinates, west \in ItemCoordinates,
           north \in ItemCoordinates, east \in ItemCoordinates :
            /\ timeseries[1].spatialCoverage =
                  Some(NumStr(south) \o <<" ">> \o NumStr(west) \o <<" ">>
                       \o NumStr(north) \o <<" ">> \o NumStr(east))
            /\ ~NumLess(north, south)
            /\ ~NumLess(east, west)

\* every asset of the source Item has a usable address: not empty, not file://
AssetsAddressable ==
    /\ stac_dict.type = "feature"
    /\ stac_dict.assets # <<>>
    /\ \A i \in DOMAIN stac_dict.assets :
          /\ stac_dict.assets[i].href \notin {None, Some(EmptyUrl)}
          /\ stac_dict.assets[i].href[1].scheme # "file"

\* C15: STAC -> GeoCroissant -> STAC keeps the assets: for an Item whose assets
\* all have a non-empty, non-file:// href the exported Item has as many assets
\* as the original, one for each original asset with the same href.
C15_AssetsRoundTrip ==
    (Exported /\ AssetsAddressable) =>
        /\ item[1].ok
        /\ Len(item[1].assets) = Len(stac_dict.assets)
        /\ \A i \in DOMAIN stac_dict.assets :
              \E j \in DOMAIN item[1].assets :
                  item[1].assets[j].href = stac_dict.assets[i].href[1]

\* the box string of the document is present but is not four numbers
BoxMalformed ==
    /\ croissant # None
    /\ croissant[1].spatialCoverage # None
    /\ LET tokens == Split(croissant[1].spatialCoverage[1])
       IN  Len(tokens) # 4 \/ \E i \in DOMAIN tokens : ~ParseFloat(tokens[i]).ok

\* the document in flight without its box
WithoutBox == [croissant[1] EXCEPT !.spatialCoverage = None]

\* C16: a box string that is empty, holds a non-numeric token or does not hold
\* exactly four tokens is treated as an absent extent and raises nothing.
\* Stated for geocroissant_to_stac and convert_geocroissant_to_tdml_objectmodel.
C16_MalformedBoxIsAbsent ==
    BoxMalformed =>
        /\ pc \in {"stac-written", "tdml-written", "reimported"} =>
              item[1] = geocroissant_to_stac(WithoutBox, clock)
        /\ pc \in {"tdml-written", "reimported"} =>
              tdml_obj[1] = convert_geocroissant_to_tdml_objectmodel(WithoutBox, walked)

-----------------------------------------------------------------------------
(* Helper functions called on their own: encoding formats and CRS labels *)

\* str.endswith(suffix)
EndsWith(s, suffix) ==
    Len(suffix) <= Len(s) /\ SubSeq(s, Len(s) - Len(suffix) + 1, Len(s)) = suffix

\* geocroissant_converter.py, lines 315-332 (the 's3credentials' branch returns
\* what the final else returns)
determine_encoding_format(url) ==
    IF EndsWith(url, <<".", "t", "i", "f">>) \/ EndsWith(url, <<".", "t", "i", "f", "f">>)
    THEN "image/tiff"
    ELSE IF EndsWith(url, <<".", "j", "p", "g">>) \/ EndsWith(url, <<".", "j", "p", "e", "g">>)
    THEN "image/jpeg"
    ELSE IF EndsWith(url, <<".", "j", "s", "o", "n">>) THEN "application/json"
    ELSE IF EndsWith(url, <<".", "x", "m", "l">>) THEN "application/xml"
    ELSE IF EndsWith(url, <<".", "h", "d", "f">>) \/ EndsWith(url, <<".", "h", "5">>)
    THEN "application/x-hdf"
    ELSE IF EndsWith(url, <<".", "n", "c">>) THEN "application/x-netcdf"
    ELSE "application/octet-stream"

\* ceda.py, lines 121-130: the encoding of one product of cloud_product_to_geocroissant
CedaEncoding(product_url) ==
    IF EndsWith(product_url, <<".", "j", "s", "o", "n">>) THEN "application/json"
    ELSE IF EndsWith(product_url, <<".", "n", "c">>)
            \/ EndsWith(product_url, <<".", "n", "e", "t", "c", "d", "f">>)
    THEN "application/netcdf"
    ELSE IF EndsWith(product_url, <<".", "z", "a", "r", "r">>) THEN "application/zarr"
    ELSE "application/octet-stream"

\* file extensions, known to the converters or not
Extensions ==
    {<<"t", "i", "f">>, <<"t", "i", "f", "f">>, <<"j", "s", "o", "n">>, <<"n", "c">>,
     <<"n", "e", "t", "c", "d", "f">>, <<"z", "a", "r", "r">>, <<"h", "5">>, <<"h", "d", "f">>,
     <<"p", "a", "r", "q", "u", "e", "t">>, <<"j", "p", "g">>, <<"x", "m", "l">>,
     <<"b", "i", "n">>, <<"T", "I", "F">>}

\* addresses: a stem, possibly with an inner extension, and possibly an extension
Urls ==
    LET stems == {<<"g">>, <<"g", ".", "t", "i", "f">>, <<"d", "/", "g">>}
    IN  stems \cup {stem \o <<".">> \o ext : stem \in stems, ext \in Extensions}

\* A WKT2 string is a sequence of lexical tokens: keywords, runs of digits and
\* AUTHORITY["<name>","<code>"] pairs.
Keyword(word) == [tok |-> word]
DigitRun(text) == [tok |-> "digits", text |-> text]
Authority(name, code) == [tok |-> "AUTHORITY", name |-> name, code |-> code]

\* "<word>" in wkt2_string
HasKeyword(wkt2, word) == \E i \in DOMAIN wkt2 : wkt2[i].tok = word

\* the first run of digits inside a token, if it has one
DigitsOf(token) ==
    IF token.tok = "digits" THEN Some(token.text)
    ELSE IF token.tok = "AUTHORITY" THEN Some(token.code)
    ELSE None

\* the first position of the sequence that satisfies the test, or 0
First(s, Test(_)) ==
    IF \E i \in DOMAIN s : Test(s[i])
    THEN CHOOSE i \in DOMAIN s : Test(s[i]) /\ \A j \in 1..(i - 1) : ~Test(s[j])
    ELSE 0

\* lines 30-34: re.search(r'UTM[^\d]*(\d+)', wkt2_string, re.IGNORECASE), group 1
UtmZoneMatch(wkt2) ==
    LET utm == First(wkt2, LAMBDA t : t.tok \in {"UTM", "utm"})
        rest == SubSeq(wkt2, utm + 1, Len(wkt2))
        run == First(rest, LAMBDA t : DigitsOf(t) # None)
    IN  IF utm = 0 \/ run = 0 THEN None ELSE DigitsOf(rest[run])

\* lines 24-36: the label of a projected CRS
ProjectionLabel(wkt2) ==
    IF HasKeyword(wkt2, "Albers") THEN <<"Custom Albers Equal Area projection">>
    ELSE IF HasKeyword(wkt2, "UTM")
    THEN LET zone_match == UtmZoneMatch(wkt2)
         IN  IF zone_match # None THEN <<"UTM Zone ", zone_match[1]>>
             ELSE <<"UTM projection">>
    ELSE <<"Custom projection (see proj:wkt2)">>

UnitCodes == {"9122", "9001"}

\* lines 19-47
extract_crs_from_wkt2(wkt2_string) ==
    IF wkt2_string \in {None, Some(<<>>)} THEN None
    ELSE LET wkt2 == wkt2_string[1]
             epsg_match == First(wkt2, LAMBDA t : t.tok = "AUTHORITY" /\ t.name = "EPSG")
         IN  IF HasKeyword(wkt2, "PROJCS") \/ HasKeyword(wkt2, "PROJECTION")
             THEN Some(ProjectionLabel(wkt2))
             ELSE IF epsg_match # 0 /\ wkt2[epsg_match].code \notin UnitCodes
             THEN Some(<<"EPSG:", wkt2[epsg_match].code>>)
             ELSE None

MaxWkt == 3

WktTokens ==
    {Keyword("PROJCS"), Keyword("GEOGCS"), Keyword("Albers"), Keyword("UTM"), Keyword("utm"),
     DigitRun("33"), Authority("EPSG", "9122"), Authority("EPSG", "32633"),
     Authority("ESRI", "102008")}

WktStrings == {None} \cup {Some(w) : w \in SeqsUpTo(WktTokens, MaxWkt)}

-----------------------------------------------------------------------------
(* One call of a helper function *)

\* NASA_T2M_2020.py, lines 10-18: the store address and the value written as md5,
\* the first 32 hex digits of the SHA-256 of the address text followed by "2020T2M"
zarr_url == [scheme |-> "https", path |-> <<"n", "a", "s", "a", "-", "p", "o", "w", "e", "r">>]
UrlDigest == [algorithm |-> "sha256", of |-> <<zarr_url, "2020T2M">>, hexdigits |-> 32]

\* NASA_T2M_2020.py, lines 21-117: the document, as far as the exporters read it
create_nasa_t2m_2020_croissant ==
    [name |-> Some(<<"N", "A", "S", "A", " ", "P", "O", "W", "E", "R", " ", "T", "2", "M", " ", "2", "0", "2", "0">>),
     description |-> Some(<<"T", "2", "M">>),
     datePublished |-> Some(Ts(0, FALSE, "")),
     spatialCoverage |-> Some(<<"-", "9", "0", ".", "0", " ", "-", "1", "8", "0", ".", "0", " ", "9", "0", ".", "0", " ", "1", "7", "9", ".", "3", "7", "5">>),
     temporalCoverage |-> Some(<<Ts(0, FALSE, ""), Slash, Ts(HoursPerYear - HoursPerDay, FALSE, "")>>),
     distribution |-> <<[type |-> "cr:FileObject",
                         id |-> Some(<<"z", "a", "r", "r", "-", "d", "a", "t", "a">>),
                         name |-> Some(<<"z", "a", "r", "r", "-", "d", "a", "t", "a">>),
                         contentUrl |-> Some(zarr_url),
                         encodingFormat |-> Some("application/zarr"),
                         md5 |-> Some(UrlDigest)]>>]

RECURSIVE JoinDot(_)
\* ".".join(parts)
JoinDot(parts) ==
    IF parts = <<>> THEN <<>>
    ELSE IF Len(parts) = 1 THEN parts[1]
    ELSE parts[1] \o <<".">> \o JoinDot(Tail(parts))

\* stac_to_geocroissant.py, lines 9-17
ensure_semver(version) ==
    IF version \in {None, Some(<<>>)} THEN <<"1", ".", "0", ".", "0">>
    ELSE LET stripped == IF version[1][1] = "v" THEN Tail(version[1]) ELSE version[1]
             parts == SplitOn(stripped, ".")
             padded == IF Len(parts) = 2 THEN Append(parts, <<"0">>) ELSE parts
         IN  JoinDot(SubSeq(padded, 1, IF Len(padded) < 3 THEN Len(padded) ELSE 3))

MaxVersion == 4

\* version strings: missing, or any text of "v", digits and points
Versions == {None} \cup {Some(v) : v \in SeqsUpTo({"v", "1", "."}, MaxVersion)}

\* the text after the last occurrence of the separator (str.split(sep)[-1])
LastPiece(text, sep) == LET pieces == SplitOn(text, sep) IN pieces[Len(pieces)]

\* geocroissant_converter.py, lines 239-267: one FileObject per related URL
add_distribution(related_urls) ==
    [i \in DOMAIN related_urls |->
        LET url == related_urls[i]
        IN  [type |-> "cr:FileObject",
             name |-> Some(IF LastPiece(url, "/") # <<>> THEN LastPiece(url, "/")
                           ELSE <<"d", "a", "t", "a", "_", "f", "i", "l", "e">>),
             contentUrl |-> Some(url),
             encodingFormat |-> Some(determine_encoding_format(url)),
             sha256 |-> Some("https://github.com/mlcommons/croissant/issues/80")]]

\* ceda.py, lines 113-140: one FileObject per product that has an href
CedaDistribution(products) ==
    LET with_href == SelectSeq(products, LAMBDA product : product.href # None)
    IN  [i \in DOMAIN with_href |->
            LET asset_name == LastPiece(with_href[i].id, "-")
            IN  [type |-> "cr:FileObject",
                 id |-> Some(asset_name),
                 name |-> Some(asset_name),
                 contentUrl |-> with_href[i].href,
                 encodingFormat |-> Some(CedaEncoding(with_href[i].href[1])),
                 sha256 |-> Some("placeholder")]]

MaxEntries == 2

\* UMM-G related URLs and CEDA products
RelatedUrlLists ==
    SeqsUpTo({<<"d", "/", "g", ".", "t", "i", "f">>, <<"d", "/">>, <<>>}, MaxEntries)
Products ==
    [id : {<<"a", "-", "t">>, <<"b", "-", "t">>, <<"t">>, <<"a">>},
     href : {None, Some(<<"g", ".", "n", "c">>)}]
ProductLists == SeqsUpTo(Products, MaxEntries)

MaxUnits == 4

\* units strings of a TDML band: absent, or any text of digits, points, letters and
\* blanks (numbers are counted in tenths, so no number has two decimals)
UnitsStrings ==
    {None} \cup {Some(u) : u \in {v \in SeqsUpTo({"8", ".", "n", " "}, MaxUnits) :
                                    ~Contains(v, <<".", "8", "8">>)}}

CallArgs ==
    [fn : {"determine_encoding_format", "cloud_product_to_geocroissant"}, url : Urls]
    \cup [fn : {"extract_crs_from_wkt2"}, wkt2_string : WktStrings]
    \cup [fn : {"tdml_to_geocroissant"}, band : [description : {B1}, units : UnitsStrings]]
    \cup [fn : {"geocroissant_to_geodcat_jsonld"}, adapter : {"stac_to_geocroissant"},
           stac_dict : AssetDocs]
    \cup [fn : {"geocroissant_to_geodcat_jsonld"}, adapter : {"create_nasa_t2m_2020_croissant"}]
    \cup [fn : {"ensure_semver"}, version : Versions]
    \cup [fn : {"add_distribution"}, related_urls : RelatedUrlLists]
    \cup [fn : {"cloud_product_to_geocroissant.distribution"}, products : ProductLists]

InitCalls ==
    /\ pc = "call-pending"
    /\ clock \in ClockStarts
    /\ call_args \in CallArgs
    /\ call_result = None
    /\ tool = None /\ source_file = None /\ phases = <<>> /\ outputs = <<>> /\ graph = None
    /\ croissant = None /\ item = None
    /\ walked = None /\ tdml_obj = None /\ geocroissant = None
    /\ stac_dict = None /\ croissant_rerun = None /\ warnings = <<>> /\ item_rerun = None
    /\ items_list = None /\ timeseries = None
    /\ variables = None /\ fields = None

\* geocroissant_converter.py, line 253: the format of one related URL
DetermineEncodingFormat ==
    /\ pc = "call-pending" /\ call_args.fn = "determine_encoding_format"
    /\ call_result' = Some(determine_encoding_format(call_args.url))
    /\ pc' = "call-returned"
    /\ UNCHANGED <<clock, croissant, item, call_args,
                   stacRun, tdmlRun, timeseriesRun, sdoRun, scriptRun>>

\* ceda.py, lines 121-130: the format of one product
CedaProductEncoding ==
    /\ pc = "call-pending" /\ call_args.fn = "cloud_product_to_geocroissant"
    /\ call_result' = Some(CedaEncoding(call_args.url))
    /\ pc' = "call-returned"
    /\ UNCHANGED <<clock, croissant, item, call_args,
                   stacRun, tdmlRun, timeseriesRun, sdoRun, scriptRun>>

\* stac_to_geocroissant.py, line 19: the CRS of one proj:wkt2 string
ExtractCrsFromWkt2 ==
    /\ pc = "call-pending" /\ call_args.fn = "extract_crs_from_wkt2"
    /\ call_result' = Some(extract_crs_from_wkt2(call_args.wkt2_string))
    /\ pc' = "call-returned"
    /\ UNCHANGED <<clock, croissant, item, call_args,
                   stacRun, tdmlRun, timeseriesRun, sdoRun, scriptRun>>

\* ogc-tdml to geocr.py, lines 77-92: the band entry made from one band of the TDML file
ImportOneBand ==
    /\ pc = "call-pending" /\ call_args.fn = "tdml_to_geocroissant"
    /\ call_result' = Some(ImportBand(call_args.band))
    /\ pc' = "call-returned"
    /\ UNCHANGED <<clock, croissant, item, call_args,
                   stacRun, tdmlRun, timeseriesRun, sdoRun, scriptRun>>

\* the document an adapter emits for the source named in the call
Emitted ==
    IF call_args.adapter = "stac_to_geocroissant"
    THEN Described(stac_to_geocroissant(call_args.stac_dict, clock).doc)
    ELSE create_nasa_t2m_2020_croissant

\* geocroissant_to_geodcat.py, lines 7-184, on a document that an adapter emitted
ExportEmittedToGeodcat ==
    /\ pc = "call-pending" /\ call_args.fn = "geocroissant_to_geodcat_jsonld"
    /\ call_result' = Some(geocroissant_to_geodcat_graph(Emitted))
    /\ pc' = "call-returned"
    /\ UNCHANGED <<clock, croissant, item, call_args,
                   stacRun, tdmlRun, timeseriesRun, sdoRun, scriptRun>>

\* stac_to_geocroissant.py, line 70: the version of one source document
EnsureSemver ==
    /\ pc = "call-pending" /\ call_args.fn = "ensure_semver"
    /\ call_result' = Some(ensure_semver(call_args.version))
    /\ pc' = "call-returned"
    /\ UNCHANGED <<clock, croissant, item, call_args,
                   stacRun, tdmlRun, timeseriesRun, sdoRun, scriptRun>>

\* geocroissant_converter.py, line 239: the distribution of one granule
AddDistribution ==
    /\ pc = "call-pending" /\ call_args.fn = "add_distribution"
    /\ call_result' = Some(add_distribution(call_args.related_urls))
    /\ pc' = "call-returned"
    /\ UNCHANGED <<clock, croissant, item, call_args,
                   stacRun, tdmlRun, timeseriesRun, sdoRun, scriptRun>>

\* ceda.py, lines 113-140: the distribution of one product list
CedaProductDistribution ==
    /\ pc = "call-pending" /\ call_args.fn = "cloud_product_to_geocroissant.distribution"
    /\ call_result' = Some(CedaDistribution(call_args.products))
    /\ pc' = "call-returned"
    /\ UNCHANGED <<clock, croissant, item, call_args,
                   stacRun, tdmlRun, timeseriesRun, sdoRun, scriptRun>>

NextCalls ==
    \/ AddDistribution
    \/ CedaProductDistribution
    \/ EnsureSemver
    \/ ExportEmittedToGeodcat
    \/ DetermineEncodingFormat
    \/ CedaProductEncoding
    \/ ExtractCrsFromWkt2
    \/ ImportOneBand

SpecCalls == InitCalls /\ [][NextCalls]_vars

Returned(fn) == pc = "call-returned" /\ call_args.fn = fn

\* the part of the address after its last "."
ExtensionOf(url) ==
    LET dots == {i \in DOMAIN url : url[i] = "."}
    IN  IF dots = {} THEN <<>>
        ELSE SubSeq(url, (CHOOSE i \in dots : \A j \in dots : j <= i) + 1, Len(url))

\* the table of formats stated for every adapter
FormatTable(ext) ==
    IF ext \in {<<"t", "i", "f">>, <<"t", "i", "f", "f">>} THEN "image/tiff"
    ELSE IF ext = <<"j", "s", "o", "n">> THEN "application/json"
    ELSE IF ext \in {<<"n", "c">>, <<"n", "e", "t", "c", "d", "f">>} THEN "application/x-netcdf"
    ELSE IF ext = <<"z", "a", "r", "r">> THEN "application/zarr"
    ELSE IF ext \in {<<"h", "5">>, <<"h", "d", "f">>} THEN "application/x-hdf5"
    ELSE IF ext = <<"p", "a", "r", "q", "u", "e", "t">> THEN "application/parquet"
    ELSE "application/octet-stream"

\* C17: the encoding format derived from the file extension follows one fixed
\* table in every adapter (tif/tiff, json, nc/netcdf, zarr, h5/hdf, parquet,
\* anything else application/octet-stream).
C17_OneFormatTable ==
    (Returned("determine_encoding_format") \/ Returned("cloud_product_to_geocroissant")) =>
        call_result = Some(FormatTable(ExtensionOf(call_args.url)))

\* the codes of the EPSG pairs of the string that are not unit codes
EpsgCodes(wkt2) ==
    {wkt2[i].code : i \in {j \in DOMAIN wkt2 :
                            /\ wkt2[j].tok = "AUTHORITY" /\ wkt2[j].name = "EPSG"
                            /\ wkt2[j].code \notin UnitCodes}}

\* C18: extract_crs_from_wkt2 gives 'EPSG:<code>' when the string holds an EPSG
\* pair that is not a unit code; otherwise the label of the projection keyword,
\* if the string is of a projected CRS; otherwise None.  It never returns a unit
\* code, and None on empty input.
C18_CrsPrecedence ==
    Returned("extract_crs_from_wkt2") =>
        LET wkt2 == GetOr(call_args.wkt2_string, <<>>)
        IN  /\ call_result[1] \notin {Some(<<"EPSG:", c>>) : c \in UnitCodes}
            /\ wkt2 = <<>> => call_result[1] = None
            /\ IF EpsgCodes(wkt2) # {}
               THEN call_result[1] \in {Some(<<"EPSG:", c>>) : c \in EpsgCodes(wkt2)}
               ELSE IF HasKeyword(wkt2, "PROJCS") \/ HasKeyword(wkt2, "PROJECTION")
               THEN call_result[1] = Some(ProjectionLabel(wkt2))
               ELSE call_result[1] = None

\* the positions of a 3-dimensional shape whose size is strictly below both others
SmallestAxes(shape) ==
    {k \in 1..3 : \A other \in (1..3) \ {k} : shape[k] < shape[other]}

\* C19: for a 3-dimensional variable the band count is the size of the axis
\* that is strictly smaller than both others, whichever position it has (first,
\* middle or last); every other variable gets one band named after it.
C19_SmallestAxisAnyPosition ==
    pc = "sdo-fields" =>
        \A i \in DOMAIN variables :
            LET shape == variables[i].shape
                cfg == fields[1][i].bandConfiguration[1]
            IN  IF Len(shape) = 3 /\ SmallestAxes(shape) # {}
                THEN \A k \in SmallestAxes(shape) : cfg.totalBands = shape[k]
                ELSE /\ cfg.totalBands = 1
                     /\ cfg.bandNamesList = <<variables[i].name>>

\* the instants of the items that carry a datetime
ItemHours ==
    {ParseItemDatetime(items_list[i].datetime[1]).hours :
        i \in {j \in DOMAIN items_list : Opt(items_list[j], "datetime") # None}}

\* what the converter returns for a list: its temporal extent, or the exception
ExtentOf(list) ==
    LET r == convert_items_to_geocroissant(list, clock)
    IN  IF r.ok THEN [ok |-> TRUE, temporalCoverage |-> r.temporalCoverage] ELSE r

\* C20: the temporal extent aggregated from the items is "start/end" with start
\* the earliest and end the latest item date, start <= end, and it is the same
\* for every permutation of the item list.
C20_ExtentOrderIndependent ==
    (pc = "items-converted" /\ items_list # <<>>) =>
        /\ (timeseries[1].ok /\ ItemHours # {}) =>
              \E start \in ItemHours, end \in ItemHours :
                  /\ \A h \in ItemHours : start <= h /\ h <= end
                  /\ start <= end
                  /\ Len(timeseries[1].temporalCoverage[1]) = 3
                  /\ timeseries[1].temporalCoverage[1][1].hours = start
                  /\ timeseries[1].temporalCoverage[1][2] = Slash
                  /\ timeseries[1].temporalCoverage[1][3].hours = end
        /\ \A list \in Orderings(items_list) : ExtentOf(list) = ExtentOf(items_list)

\* the temporal string of the document in flight has no "start/end" range
NoRangeGiven ==
    /\ croissant # None
    /\ \A i \in DOMAIN GetOr(Opt(croissant[1], "temporalCoverage"), <<>>) :
          croissant[1].temporalCoverage[1][i] # Slash

\* C21: a temporal input that is a single instant, or is missing, degrades to
\* that instant or to an absent value; the exported item never carries the
\* current time in place of it.  Stated for geocroissant_to_stac.
C21_NoFabricatedInstant ==
    (pc \in {"stac-written", "tdml-written", "reimported"} /\ NoRangeGiven /\ item[1].ok) =>
        /\ item[1].start_datetime = None /\ item[1].end_datetime = None
        /\ IF Opt(croissant[1], "temporalCoverage") \in {None, Some(<<>>)}
           THEN item[1].datetime \notin {[hours |-> clock, aware |-> a] : a \in BOOLEAN}
           ELSE item[1].datetime.hours = croissant[1].temporalCoverage[1][1].hours

\* the box derived from a polygon ring by the min/max rule of the TDML exporter
DerivedBox(ring) ==
    TdmlExtent([croissant[1] EXCEPT !.spatialCoverage = None, !.coordinates = Some(ring)]).extent

\* x is the least / the greatest of the numbers xs
IsLeast(x, xs) == \E i \in DOMAIN xs : NumEq(x, xs[i]) /\ \A j \in DOMAIN xs : ~NumLess(xs[j], x)
IsGreatest(x, xs) == \E i \in DOMAIN xs : NumEq(x, xs[i]) /\ \A j \in DOMAIN xs : ~NumLess(x, xs[j])

\* C22: the box derived from a polygon ring is the per-axis minimum and maximum
\* over the ring vertices, and the closed rectangle ring that geocroissant_to_stac
\* builds from a box has that same box as its derived box.
C22_RingBoxIsMinMax ==
    /\ (pc \in {"tdml-written", "reimported"} /\ tdml_obj[1].ok
        /\ croissant[1].spatialCoverage = None /\ Truthy(croissant[1].coordinates)) =>
          LET ring == croissant[1].coordinates[1]
              lons == [i \in DOMAIN ring |-> ring[i][1]]
              lats == [i \in DOMAIN ring |-> ring[i][2]]
              extent == tdml_obj[1].extent[1]
          IN  /\ IsLeast(extent[1], lons) /\ IsLeast(extent[2], lats)
              /\ IsGreatest(extent[3], lons) /\ IsGreatest(extent[4], lats)
    /\ (pc \in {"stac-written", "tdml-written", "reimported"} /\ item[1].ok
        /\ Truthy(croissant[1].spatialCoverage)) =>
          /\ Len(item[1].geometry) = 5
          /\ item[1].geometry[1] = item[1].geometry[5]
          /\ SeqNumEq(DerivedBox(item[1].geometry)[1], item[1].bbox)

\* the text is digits with an optional decimal point after them: "8", "8.", "8.8"
IsLeadingNumber(text) ==
    /\ text # <<>> /\ IsDigit(text[1])
    /\ \A i \in DOMAIN text : IsDigit(text[i]) \/ text[i] = "."
    /\ Cardinality({i \in DOMAIN text : text[i] = "."}) <= 1

\* the ways to cut the units string into a leading number and a rest of letters only
ExactSplits(units_str) ==
    {k \in 1..(Len(units_str) - 1) :
        /\ IsLeadingNumber(SubSeq(units_str, 1, k))
        /\ \A i \in (k + 1)..Len(units_str) : units_str[i] \in Letters}

\* C23: a units string that is a leading number followed by letters only, and
\* nothing else, gives centerWavelength with that number as value and the whole
\* rest as unit; every other units string gives a band entry with its name and
\* no centerWavelength.
C23_UnitsSplitExactly ==
    Returned("tdml_to_geocroissant") =>
        LET units_str == GetOr(call_args.band.units, <<>>)
            entry == call_result[1]
        IN  /\ entry.name = Some(call_args.band.description)
            /\ IF ExactSplits(units_str) = {}
               THEN entry.centerWavelength = None
               ELSE \E k \in ExactSplits(units_str) :
                       /\ entry.centerWavelength # None
                       /\ entry.centerWavelength[1].value = ParseFloat(SubSeq(units_str, 1, k)).val
                       /\ entry.centerWavelength[1].unitText = SubSeq(units_str, k + 1, Len(units_str))

\* C24: for a non-empty item list the converter returns one dataset document
\* whose distribution holds one entry per input item, in input order, with the
\* distinct ids granule_1_bands .. granule_n_bands, and whose record set names
\* in timeSeriesIndex a field of its field list.
C24_OneEntryPerItem ==
    (pc = "items-converted" /\ items_list # <<>>) =>
        /\ timeseries[1].ok
        /\ ~timeseries[1].empty
        /\ Len(timeseries[1].distribution) = Len(items_list)
        /\ \A i \in DOMAIN items_list :
              /\ timeseries[1].distribution[i].id = Some(GranuleId(i))
              /\ timeseries[1].distribution[i].name =
                    Some(GetOr(Opt(items_list[i], "id"), ItemId(i))
                         \o <<"_", "s", "p", "e", "c", "t", "r", "a", "l", "_", "b", "a", "n", "d", "s">>)
        /\ \A i, j \in DOMAIN items_list :
              timeseries[1].distribution[i].id = timeseries[1].distribution[j].id => i = j
        /\ \E k \in DOMAIN timeseries[1].field :
              timeseries[1].field[k] = timeseries[1].timeSeriesIndex

\* the hashes that the source of the call supplied for its files
SuppliedHashes ==
    IF call_args.adapter = "stac_to_geocroissant"
    THEN UNION {{call_args.stac_dict.assets[i].multihash,
                 call_args.stac_dict.assets[i].file_checksum,
                 call_args.stac_dict.assets[i].md5} \ {None} :
                   i \in DOMAIN call_args.stac_dict.assets}
    ELSE {}

\* C25: geocroissant_to_geodcat_jsonld emits a checksum node only for a hash
\* that the source supplied, never for a sentinel or for a value that an
\* adapter made up.
C25_NoPlaceholderChecksumExported ==
    Returned("geocroissant_to_geodcat_jsonld") =>
        /\ call_result[1].ok
        /\ \A i \in DOMAIN call_result[1].distributions :
              call_result[1].distributions[i].checksum \in {None} \cup SuppliedHashes

\* C26: ensure_semver returns a string of exactly three dot-separated
\* components without a leading "v" for every input, and "1.0.0" for an empty
\* or missing version.
C26_SemverShaped ==
    Returned("ensure_semver") =>
        /\ Len(SplitOn(call_result[1], ".")) = 3
        /\ call_result[1] # <<>> /\ call_result[1][1] # "v"
        /\ call_args.version \in {None, Some(<<>>)} => call_result[1] = <<"1", ".", "0", ".", "0">>

\* the @id values of the distribution entries of a document
DistributionIds(doc) == {doc.distribution[i].id : i \in DOMAIN doc.distribution}

C28_DistributionIdsDistinct ==
    (Returned("add_distribution") \/ Returned("cloud_product_to_geocroissant.distribution")) =>
        /\ \A i \in DOMAIN call_result[1] : Opt(call_result[1][i], "id") # None
        /\ \A i, j \in DOMAIN call_result[1] :
              Opt(call_result[1][i], "id") = Opt(call_result[1][j], "id") => i = j

\* C29: in every geocr:BandConfiguration of the field definitions, totalBands
\* equals the length of the band name list, for every variable shape.
C29_TotalBandsIsNameCount ==
    fields # None =>
        \A i \in DOMAIN fields[1] :
            LET cfg == fields[1][i].bandConfiguration[1]
            IN  cfg.totalBands = Len(cfg.bandNamesList)

\* the data entry pairs an image with the mask that belongs to it: entries 2k and
\* 2k+1 (Python) of a legacy distribution, or two enumerated files with one base name
PairedWithItsMask(g, data, k) ==
    /\ Len(data[k].labels) = 1
    /\ IF HasLegacyDistribution(g.distribution)
       THEN /\ 2 * k <= Len(g.distribution)
            /\ data[k].data_url = GetOr(Opt(g.distribution[2 * k - 1], "contentUrl"), EmptyUrl)
            /\ data[k].labels[1].image_url =
                  GetOr(Opt(g.distribution[2 * k], "contentUrl"), EmptyUrl)
       ELSE walked # None =>
               BaseName(data[k].data_url.file, "_merged.tif")
                  = BaseName(data[k].labels[1].image_url.file, ".mask.tif")

\* C30: every TDML document written has at least one data entry, an
\* amount_of_training_data equal to the number of data entries, pairwise distinct
\* data ids, and in every data entry built from files exactly one image URL and
\* the mask label paired with it.
C30_DataEntriesPaired ==
    (TdmlWritten /\ tdml_obj[1].ok) =>
        LET data == tdml_obj[1].data
        IN  /\ Len(data) >= 1
            /\ tdml_obj[1].amount_of_training_data = Len(data)
            /\ \A i, j \in DOMAIN data : data[i].id = data[j].id => i = j
            /\ \A k \in DOMAIN data : PairedWithItsMask(croissant[1], data, k)
=============================================================================
